---- MODULE Spec2Model ----
(***************************************************************************)
(* Translation dispatch engine of text-processing-tool:                    *)
(*   src/src/services/translation_service.py  (TranslationService)         *)
(*   src/src/config/translation_config.py     (TranslationConfig)          *)
(*                                                                         *)
(* Python strings are modelled as sequences of one-character strings, so   *)
(* that len, strip, slicing, re.split and str.join are computed character  *)
(* by character.  max_chunk_size is scaled from 3000 characters to 3: all  *)
(* comparisons against it are kept as in the source, and the chunk cap of  *)
(* 10 and the retry parameters keep their source values.                   *)
(***************************************************************************)
EXTENDS Integers, Sequences, FiniteSets, TLC

VARIABLES
    AVAILABLE_SERVICES,  \* TranslationConfig.AVAILABLE_SERVICES (baseline, from the environment)
    session,             \* flask session: may hold the key "user_translation_configs"
    config_ops,          \* number of set_user_config / clear_user_config calls so far
    pc,                  \* position of the translate_text request
    text, prompt, service_name,   \* arguments of translate_text (service_name after defaulting)
    chunks,              \* _translate_long_text: chunks returned by _split_text
    translated_chunks,   \* _translate_long_text: translations collected so far
    attempt,             \* _translate_short_text: loop variable of the retry loop
    calls,               \* log of session.post calls made by the request
    sleeps,              \* log of time.sleep calls made by the request
    result,              \* dictionary returned by translate_text
    split_out,           \* value returned by a stand-alone _split_text call
    requested,           \* service_name argument of translate_text as the caller gave it
    sessions,            \* the Flask session of every client, by client id
    processing_history,  \* TextProcessor.processing_history of the global text_processor
    processor_log,       \* calls made on the text processor so far, with what each returned
    checked_config       \* the configuration read by translate_text's availability check

vars == <<AVAILABLE_SERVICES, session, config_ops, pc, text, prompt, service_name, chunks,
          translated_chunks, attempt, calls, sleeps, result, split_out, requested, sessions,
          processing_history, processor_log, checked_config>>

(***************************************************************************)
(* Program constants (TranslationService.__init__).                        *)
(***************************************************************************)
max_chunk_size == 3      \* 3000 in the source, scaled by 1/1000
timeout_short  == 60
timeout_long   == 180
max_retries    == 3
retry_delay    == 2
MaxChunks      == 10     \* "if len(chunks) > 10" in _split_text

(***************************************************************************)
(* Bounds of the model.                                                    *)
(***************************************************************************)
MaxTextLen == 5          \* every text over Alphabet up to this length is an input
MaxRepeat  == 12         \* longer inputs: a unit repeated up to this many times

None == "<None>"        \* Python's None

(***************************************************************************)
(* Strings.                                                                *)
(***************************************************************************)
Whitespace == {" ", "\n"}
\* the full-width characters U+3002, U+FF01, U+FF1F are written by their code points
Punct      == {".", "!", "?", "U+3002", "U+FF01", "U+FF1F"}
Alphabet   == {"a", " ", "."}

RECURSIVE lstrip(_)
lstrip(s) == IF s # <<>> /\ Head(s) \in Whitespace THEN lstrip(Tail(s)) ELSE s

RECURSIVE rstrip(_)
rstrip(s) ==
    IF s # <<>> /\ s[Len(s)] \in Whitespace THEN rstrip(SubSeq(s, 1, Len(s) - 1)) ELSE s

\* str.strip()
strip(s) == rstrip(lstrip(s))

Slice_one_more(s, i, j) == SubSeq(s, i + 1, IF j + 1 > Len(s) THEN Len(s) ELSE j + 1)

\* text[i:j] with 0-based i, j as in Python
Slice(s, i, j) == SubSeq(s, i + 1, IF j > Len(s) THEN Len(s) ELSE j)

\* sep.join(parts)
RECURSIVE join(_, _)
join(sep, parts) ==
    IF parts = <<>> THEN <<>>
    ELSE IF Len(parts) = 1 THEN parts[1]
    ELSE parts[1] \o sep \o join(sep, Tail(parts))

\* re.split(r'([U+3002 U+FF01 U+FF1F.!?]+)', text): the pieces between delimiter
\* runs alternate with the delimiter runs themselves (the group is capturing);
\* a text that begins or ends with a delimiter run yields an empty first or
\* last piece.  run_starts are the positions where a delimiter run or a piece
\* between two runs begins.
run_starts(s) == {i \in 1..Len(s) : i = 1 \/ (s[i] \in Punct) # (s[i - 1] \in Punct)}

runs(s) ==
    LET B        == run_starts(s)
        n        == Cardinality(B)
        start(k) == CHOOSE b \in B : Cardinality({x \in B : x < b}) = k - 1
        end(k)   == IF k = n THEN Len(s) ELSE start(k + 1) - 1
    IN  [k \in 1..n |-> SubSeq(s, start(k), end(k))]

re_split(s) ==
    IF s = <<>> THEN << <<>> >>
    ELSE (IF s[1] \in Punct THEN << <<>> >> ELSE <<>>)
         \o runs(s)
         \o (IF s[Len(s)] \in Punct THEN << <<>> >> ELSE <<>>)

(***************************************************************************)
(* TranslationService._split_text                                          *)
(***************************************************************************)
RECURSIVE sentence_loop_flush_at_limit(_, _, _, _)
sentence_loop_flush_at_limit(sentences, i, chunks_, current_chunk) ==
    IF i > Len(sentences) THEN [chunks |-> chunks_, current_chunk |-> current_chunk]
    ELSE LET sentence      == sentences[i]
             punctuation   == IF i + 1 <= Len(sentences) THEN sentences[i + 1] ELSE <<>>
             full_sentence == sentence \o punctuation
         IN  IF Len(current_chunk \o full_sentence) >= max_chunk_size /\ current_chunk # <<>>
             THEN sentence_loop_flush_at_limit(sentences, i + 2,
                                Append(chunks_, strip(current_chunk)), full_sentence)
             ELSE sentence_loop_flush_at_limit(sentences, i + 2, chunks_,
                                               current_chunk \o full_sentence)

\* the loop "for i in range(0, len(sentences), 2)"; i is 1-based here
RECURSIVE sentence_loop(_, _, _, _)
sentence_loop(sentences, i, chunks_, current_chunk) ==
    IF i > Len(sentences) THEN [chunks |-> chunks_, current_chunk |-> current_chunk]
    ELSE LET sentence      == sentences[i]
             punctuation   == IF i + 1 <= Len(sentences) THEN sentences[i + 1] ELSE <<>>
             full_sentence == sentence \o punctuation
         IN  IF Len(current_chunk \o full_sentence) > max_chunk_size /\ current_chunk # <<>>
             THEN sentence_loop(sentences, i + 2,
                                Append(chunks_, strip(current_chunk)), full_sentence)
             ELSE sentence_loop(sentences, i + 2, chunks_, current_chunk \o full_sentence)

RECURSIVE window_loop_keep_blank(_, _, _)
window_loop_keep_blank(s, i, chunks_) ==
    IF i >= Len(s) THEN chunks_
    ELSE window_loop_keep_blank(s, i + max_chunk_size,
                                Append(chunks_, strip(Slice(s, i, i + max_chunk_size))))

\* the loop "for i in range(0, len(text), self.max_chunk_size)"; i is 0-based
RECURSIVE window_loop(_, _, _)
window_loop(s, i, chunks_) ==
    IF i >= Len(s) THEN chunks_
    ELSE LET chunk == Slice(s, i, i + max_chunk_size)
         IN  window_loop(s, i + max_chunk_size,
                         IF strip(chunk) # <<>> THEN Append(chunks_, strip(chunk))
                         ELSE chunks_)

sentence_chunks(s) ==
    LET r == sentence_loop(re_split(s), 1, <<>>, <<>>)
    IN  IF strip(r.current_chunk) # <<>>
        THEN Append(r.chunks, strip(r.current_chunk))
        ELSE r.chunks

split_text_strict(s) ==
    IF Len(s) < max_chunk_size THEN <<s>>
    ELSE LET by_sentence == sentence_chunks(s)
         IN  IF Len(by_sentence) > MaxChunks THEN window_loop(s, 0, <<>>)
             ELSE by_sentence

split_text(s) ==
    IF Len(s) <= max_chunk_size THEN <<s>>
    ELSE LET by_sentence == sentence_chunks(s)
         IN  IF Len(by_sentence) > MaxChunks THEN window_loop(s, 0, <<>>)
             ELSE by_sentence

(***************************************************************************)
(* Python dictionaries are functions; {} is the function of empty domain.  *)
(***************************************************************************)
EmptyDict == <<>>

\* d.get(k, default)
Get(d, k, default) == IF k \in DOMAIN d THEN d[k] ELSE default

\* d[k] = v
Put(d, k, v) == [x \in DOMAIN d \cup {k} |-> IF x = k THEN v ELSE d[x]]

\* d.pop(k, None)
Pop(d, k) == [x \in DOMAIN d \ {k} |-> d[x]]

(***************************************************************************)
(* TranslationConfig                                                       *)
(***************************************************************************)
DEFAULT_TRANSLATION_SERVICE_openai == "openai"
DEFAULT_TRANSLATION_SERVICE == "deepseek"

\* the mask the settings page shows for a stored key (16 bullets, U+2022)
Placeholder == [i \in 1..16 |-> "U+2022"]

\* AVAILABLE_SERVICES as built at import time from the environment variables
\* DEEPSEEK_API_KEY, OPENAI_API_KEY and MICROSOFT_API_KEY
BaselineServices(deepseek_key, openai_key, microsoft_key) ==
    [n \in {"deepseek", "openai", "microsoft"} |->
        CASE n = "deepseek" ->
                [name |-> "DeepSeek", api_key |-> deepseek_key,
                 api_url |-> "https://api.deepseek.com/v1/chat/completions",
                 model |-> "deepseek-chat", enabled |-> deepseek_key # <<>>]
          [] n = "openai" ->
                [name |-> "OpenAI ChatGPT", api_key |-> openai_key,
                 api_url |-> "https://api.openai.com/v1/chat/completions",
                 model |-> "gpt-3.5-turbo", enabled |-> openai_key # <<>>]
          [] n = "microsoft" ->
                [name |-> "Microsoft Translator", api_key |-> microsoft_key,
                 api_url |-> "https://api.cognitive.microsofttranslator.com",
                 region |-> "southeastasia",
                 model |-> "api-version-3.0", enabled |-> microsoft_key # <<>>]]

\* get_user_config, reading the session sess
get_user_config(sess, name) ==
    Get(Get(sess, "user_translation_configs", EmptyDict), name, EmptyDict)

\* set_user_config without the strip() in the enabled flag
set_user_config_no_strip(sess, name, api_key, model) ==
    LET keyed       == [api_key |-> api_key, enabled |-> api_key # <<>>]
        user_config == IF model # None /\ model # "" THEN Put(keyed, "model", model)
                       ELSE keyed
        configs     == Put(Get(sess, "user_translation_configs", EmptyDict),
                           name, user_config)
    IN  Put(sess, "user_translation_configs", configs)

\* set_user_config that starts from an empty container
set_user_config_replace_all(sess, name, api_key, model) ==
    LET keyed       == [api_key |-> api_key, enabled |-> strip(api_key) # <<>>]
        user_config == IF model # None /\ model # "" THEN Put(keyed, "model", model)
                       ELSE keyed
    IN  Put(sess, "user_translation_configs", Put(EmptyDict, name, user_config))

\* the session after set_user_config(name, api_key, model); model may be None
set_user_config(sess, name, api_key, model) ==
    LET base        == IF "user_translation_configs" \in DOMAIN sess THEN sess
                       ELSE Put(sess, "user_translation_configs", EmptyDict)
        keyed       == [api_key |-> api_key, enabled |-> strip(api_key) # <<>>]
        user_config == IF model # None /\ model # "" THEN Put(keyed, "model", model)
                       ELSE keyed
        configs     == Put(Get(base, "user_translation_configs", EmptyDict),
                           name, user_config)
    IN  Put(base, "user_translation_configs", configs)

\* the session after clear_user_config(name)
clear_user_config(sess, name) ==
    IF "user_translation_configs" \in DOMAIN sess
    THEN Put(sess, "user_translation_configs",
             Pop(Get(sess, "user_translation_configs", EmptyDict), name))
    ELSE sess

\* variants of get_service_config: the override is used when its enabled flag
\* is set / whenever a record is stored (as get_all_services does)
get_service_config_if_enabled(avail, sess, name) ==
    LET user_config == get_user_config(sess, name)
    IN  IF user_config # EmptyDict /\ Get(user_config, "enabled", FALSE)
        THEN LET with_key == Put(Get(avail, name, EmptyDict), "api_key", user_config.api_key)
                 with_model == IF Get(user_config, "model", "") # ""
                               THEN Put(with_key, "model", user_config.model)
                               ELSE with_key
             IN  Put(with_model, "enabled", TRUE)
        ELSE Get(avail, name, EmptyDict)

get_service_config_any_record(avail, sess, name) ==
    LET user_config == get_user_config(sess, name)
    IN  IF user_config # EmptyDict
        THEN LET base_config == Get(avail, name, EmptyDict)
                 with_key    == IF Get(user_config, "api_key", <<>>) # <<>>
                                THEN Put(base_config, "api_key", user_config.api_key)
                                ELSE base_config
                 with_model  == IF Get(user_config, "model", "") # ""
                                THEN Put(with_key, "model", user_config.model)
                                ELSE with_key
             IN  Put(with_model, "enabled", Get(user_config, "enabled", FALSE))
        ELSE Get(avail, name, EmptyDict)

\* get_service_config, reading the baseline avail and the session sess
get_service_config(avail, sess, name) ==
    LET user_config == get_user_config(sess, name)
    IN  IF user_config # EmptyDict /\ Get(user_config, "api_key", <<>>) # <<>>
        THEN LET base_config == Get(avail, name, EmptyDict)
                 with_key    == Put(base_config, "api_key", user_config.api_key)
                 with_model  == IF Get(user_config, "model", "") # ""
                                THEN Put(with_key, "model", user_config.model)
                                ELSE with_key
             IN  Put(with_model, "enabled", Get(user_config, "enabled", FALSE))
        ELSE Get(avail, name, EmptyDict)

is_service_available_any(avail, sess, name) == TRUE
is_service_available_default_true(avail, sess, name) ==
    Get(get_service_config(avail, sess, name), "enabled", TRUE)

is_service_available(avail, sess, name) ==
    Get(get_service_config(avail, sess, name), "enabled", FALSE)

\* the fields of an override written over a configuration dictionary
\* ("if user_config.get('api_key'): ...; if user_config.get('model'): ...;
\*   config['enabled'] = user_config.get('enabled', False)")
apply_user_config(config, user_config) ==
    LET with_key   == IF Get(user_config, "api_key", <<>>) # <<>>
                      THEN Put(config, "api_key", user_config.api_key)
                      ELSE config
        with_model == IF Get(user_config, "model", "") # ""
                      THEN Put(with_key, "model", user_config.model)
                      ELSE with_key
    IN  Put(with_model, "enabled", Get(user_config, "enabled", FALSE))

\* get_all_services: every catalog entry, with the override applied whenever
\* a record is stored
get_all_services(avail, sess) ==
    [name \in DOMAIN avail |->
        LET user_config == get_user_config(sess, name)
        IN  IF user_config # EmptyDict
            THEN Put(apply_user_config(avail[name], user_config), "is_user_configured", TRUE)
            ELSE Put(avail[name], "is_user_configured", FALSE)]

\* get_enabled_services: the enabled catalog entries, then every override whose
\* enabled flag is set, stored under the override's name
get_enabled_services(avail, sess) ==
    LET user_configs == Get(sess, "user_translation_configs", EmptyDict)
        from_env     == {n \in DOMAIN avail : Get(avail[n], "enabled", FALSE)}
        from_user    == {n \in DOMAIN user_configs : Get(user_configs[n], "enabled", FALSE)}
    IN  [name \in from_env \cup from_user |->
            IF name \in from_user
            THEN apply_user_config(Get(avail, name, EmptyDict), user_configs[name])
            ELSE avail[name]]

\* get_service_names
get_service_names(avail) == DOMAIN avail

\* get_config_summary
get_config_summary(avail, sess) ==
    [total_services        |-> Cardinality(DOMAIN avail),
     enabled_services      |-> Cardinality(DOMAIN get_enabled_services(avail, sess)),
     default_service       |-> DEFAULT_TRANSLATION_SERVICE,
     enabled_service_names |-> DOMAIN get_enabled_services(avail, sess),
     all_service_names     |-> get_service_names(avail)]

\* AVAILABLE_SERVICES after a method wrote the dictionary `written` into what
\* AVAILABLE_SERVICES.get(name, {}).copy() (or config.copy()) gave it: the
\* writes go to the copy.  Without the copy they would go to the entry itself.
copy_is_alias(avail, name, written) ==
    IF name \in DOMAIN avail THEN Put(avail, name, written) ELSE avail
copy(avail, name, written) == avail

RECURSIVE write_back(_, _, _)
write_back(avail, written, names) ==
    IF names = {} THEN avail
    ELSE LET n == CHOOSE n \in names : TRUE
         IN  write_back(copy(avail, n, written[n]), written, names \ {n})

\* AVAILABLE_SERVICES after get_service_config(name): only the override branch
\* writes, and it writes into a copy
baseline_after_get_service_config(avail, sess, name) ==
    LET user_config == get_user_config(sess, name)
    IN  IF user_config # EmptyDict /\ Get(user_config, "api_key", <<>>) # <<>>
        THEN copy(avail, name, get_service_config(avail, sess, name))
        ELSE avail

\* AVAILABLE_SERVICES after get_all_services(): every entry is copied and written
baseline_after_get_all_services(avail, sess) ==
    write_back(avail, get_all_services(avail, sess), DOMAIN avail)

\* AVAILABLE_SERVICES after get_enabled_services(): the entries built from an
\* enabled override are copied and written
baseline_after_get_enabled_services(avail, sess) ==
    LET user_configs == Get(sess, "user_translation_configs", EmptyDict)
    IN  write_back(avail, get_enabled_services(avail, sess),
                   {n \in DOMAIN user_configs : Get(user_configs[n], "enabled", FALSE)})

(***************************************************************************)
(* TranslationService._extract_target_language_from_prompt                 *)
(***************************************************************************)
Upper == <<"A", "B", "C", "D", "E", "F", "G", "H", "I", "J", "K", "L", "M",
           "N", "O", "P", "Q", "R", "S", "T", "U", "V", "W", "X", "Y", "Z">>
Lower == <<"a", "b", "c", "d", "e", "f", "g", "h", "i", "j", "k", "l", "m",
           "n", "o", "p", "q", "r", "s", "t", "u", "v", "w", "x", "y", "z">>

\* str.lower()
lower(s) ==
    [i \in 1..Len(s) |->
        IF \E k \in 1..26 : Upper[k] = s[i]
        THEN Lower[CHOOSE k \in 1..26 : Upper[k] = s[i]]
        ELSE s[i]]

\* keyword in s
Contains(keyword, s) ==
    \E i \in 0..(Len(s) - Len(keyword)) : SubSeq(s, i + 1, i + Len(keyword)) = keyword

\* the dictionary language_mappings in insertion order, which is the order
\* the for loop visits it
language_mappings == <<
    << <<"U+4E2D", "U+6587">>, "zh">>,
    << <<"c", "h", "i", "n", "e", "s", "e">>, "zh">>,
    << <<"c", "h", "i", "n", "a">>, "zh">>,
    << <<"U+82F1", "U+6587">>, "en">>,
    << <<"e", "n", "g", "l", "i", "s", "h">>, "en">>,
    << <<"U+82F1", "U+8BED">>, "en">>,
    << <<"U+65E5", "U+6587">>, "ja">>,
    << <<"j", "a", "p", "a", "n", "e", "s", "e">>, "ja">>,
    << <<"U+65E5", "U+8BED">>, "ja">>,
    << <<"U+97E9", "U+6587">>, "ko">>,
    << <<"k", "o", "r", "e", "a", "n">>, "ko">>,
    << <<"U+97E9", "U+8BED">>, "ko">>,
    << <<"U+6CD5", "U+6587">>, "fr">>,
    << <<"f", "r", "e", "n", "c", "h">>, "fr">>,
    << <<"U+6CD5", "U+8BED">>, "fr">>,
    << <<"U+5FB7", "U+6587">>, "de">>,
    << <<"g", "e", "r", "m", "a", "n">>, "de">>,
    << <<"U+5FB7", "U+8BED">>, "de">>,
    << <<"U+897F", "U+73ED", "U+7259", "U+6587">>, "es">>,
    << <<"s", "p", "a", "n", "i", "s", "h">>, "es">>,
    << <<"U+897F", "U+73ED", "U+7259", "U+8BED">>, "es">>,
    << <<"U+4FC4", "U+6587">>, "ru">>,
    << <<"r", "u", "s", "s", "i", "a", "n">>, "ru">>,
    << <<"U+4FC4", "U+8BED">>, "ru">>,
    << <<"U+963F", "U+62C9", "U+4F2F", "U+6587">>, "ar">>,
    << <<"a", "r", "a", "b", "i", "c">>, "ar">>,
    << <<"U+963F", "U+62C9", "U+4F2F", "U+8BED">>, "ar">>
>>
RECURSIVE mapping_loop(_, _)
mapping_loop(prompt_lower, k) ==
    IF k > Len(language_mappings) THEN "zh"
    ELSE IF Contains(language_mappings[k][1], prompt_lower) THEN language_mappings[k][2]
    ELSE mapping_loop(prompt_lower, k + 1)

extract_target_language_case_sensitive(p) == mapping_loop(p, 1)
extract_target_language_from_prompt(p) == mapping_loop(lower(p), 1)

(***************************************************************************)
(* The HTTP transport: what one session.post call does.  The content of a  *)
(* 200 response is the text that was sent ("200_echo") or a literal.       *)
(***************************************************************************)
Contents == {<<" ">>}

Outcomes ==
    [kind : {"Timeout", "ConnectionError", "200_echo", "200_no_result",
             "401_Authentication_Fails", "401_invalid_api_key", "500_other",
             "502_not_json"},
     content : {<<>>}]
    \cup [kind : {"200"}, content : Contents]

Content(outcome, sent) == IF outcome.kind = "200_echo" THEN sent ELSE outcome.content

(***************************************************************************)
(* Result dictionaries.                                                    *)
(***************************************************************************)
Failure(error, service, prompt_) ==
    [error |-> error, translated_text |-> <<>>, service_used |-> service,
     prompt_used |-> prompt_]

Success(translated, service, prompt_) ==
    [translated_text |-> translated, service_used |-> service, prompt_used |-> prompt_,
     error |-> None]

\* what an adapter does: it returns a dictionary or raises, having posted or not
Returns(value, posted) == [raised |-> "", value |-> value, posted |-> posted]
Raises(exception)      == [raised |-> exception, value |-> EmptyDict, posted |-> TRUE]

ERR_NO_KEY ==
    "API key not configured or invalid. Please configure your API key in the translation settings."

key_unusable_empty_only(config) == Get(config, "api_key", <<>>) = <<>>

\* "if not api_key or api_key == <placeholder>" of the three adapters
key_unusable(config) ==
    LET api_key == Get(config, "api_key", <<>>)
    IN  api_key = <<>> \/ api_key = Placeholder

(***************************************************************************)
(* The adapters.  The localized (Chinese) messages are written in ASCII.   *)
(***************************************************************************)
translate_with_deepseek_unclassified(config, text_, prompt_, name, outcome) ==
    IF key_unusable(config) THEN Returns(Failure(ERR_NO_KEY, name, prompt_), FALSE)
    ELSE CASE outcome.kind = "Timeout" -> Raises("Timeout")
           [] outcome.kind = "ConnectionError" -> Raises("ConnectionError")
           [] outcome.kind \in {"200", "200_echo"} ->
                Returns(Success(strip(Content(outcome, text_)), name, prompt_), TRUE)
           [] outcome.kind = "200_no_result" -> Raises("KeyError")
           [] outcome.kind \in {"401_Authentication_Fails", "401_invalid_api_key",
                                "500_other"} ->
                Returns(Failure("DeepSeek API error: " \o outcome.kind, name, prompt_), TRUE)
           [] outcome.kind = "502_not_json" ->
                Returns(Failure("DeepSeek API error: status - text", name, prompt_), TRUE)

\* _translate_with_deepseek
translate_with_deepseek(config, text_, prompt_, name, outcome) ==
    IF key_unusable(config) THEN Returns(Failure(ERR_NO_KEY, name, prompt_), FALSE)
    ELSE CASE outcome.kind = "Timeout" -> Raises("Timeout")
           [] outcome.kind = "ConnectionError" -> Raises("ConnectionError")
           [] outcome.kind \in {"200", "200_echo"} ->
                Returns(Success(strip(Content(outcome, text_)), name, prompt_), TRUE)
           [] outcome.kind = "200_no_result" -> Raises("KeyError")
           [] outcome.kind = "401_Authentication_Fails" ->
                Returns(Failure("DeepSeek: API key invalid or expired", name, prompt_), TRUE)
           [] outcome.kind \in {"401_invalid_api_key", "500_other"} ->
                Returns(Failure("DeepSeek API error: " \o outcome.kind, name, prompt_), TRUE)
           [] outcome.kind = "502_not_json" ->
                Returns(Failure("DeepSeek API error: status - text", name, prompt_), TRUE)

\* _translate_with_openai
translate_with_openai(config, text_, prompt_, name, outcome) ==
    IF key_unusable(config) THEN Returns(Failure(ERR_NO_KEY, name, prompt_), FALSE)
    ELSE CASE outcome.kind = "Timeout" -> Raises("Timeout")
           [] outcome.kind = "ConnectionError" -> Raises("ConnectionError")
           [] outcome.kind \in {"200", "200_echo"} ->
                Returns(Success(strip(Content(outcome, text_)), name, prompt_), TRUE)
           [] outcome.kind = "200_no_result" -> Raises("KeyError")
           [] outcome.kind \in {"401_Authentication_Fails", "401_invalid_api_key"} ->
                Returns(Failure("OpenAI: API key invalid or expired", name, prompt_), TRUE)
           [] outcome.kind = "500_other" ->
                Returns(Failure("OpenAI API error: " \o outcome.kind, name, prompt_), TRUE)
           [] outcome.kind = "502_not_json" ->
                Returns(Failure("OpenAI API error: status - text", name, prompt_), TRUE)

\* _translate_with_microsoft
translate_with_microsoft(config, text_, prompt_, name, outcome) ==
    IF key_unusable(config) THEN Returns(Failure(ERR_NO_KEY, name, prompt_), FALSE)
    ELSE LET target_lang == extract_target_language_from_prompt(prompt_)
         IN  CASE outcome.kind = "Timeout" ->
                    Returns(Failure("Microsoft Translator API request timed out", name,
                                    prompt_), TRUE)
               [] outcome.kind = "ConnectionError" ->
                    Returns(Failure("Microsoft Translator API request failed: "
                                    \o outcome.kind, name, prompt_), TRUE)
               [] outcome.kind \in {"200", "200_echo"} ->
                    Returns(Put(Success(Content(outcome, text_), name, prompt_),
                                "target_language", target_lang), TRUE)
               [] outcome.kind = "200_no_result" ->
                    Returns(Failure("No translation result received from Microsoft Translator",
                                    name, prompt_), TRUE)
               [] outcome.kind \in {"401_Authentication_Fails", "401_invalid_api_key",
                                    "500_other"} ->
                    Returns(Failure("Microsoft Translator API error: " \o outcome.kind,
                                    name, prompt_), TRUE)
               [] outcome.kind = "502_not_json" ->
                    Returns(Failure("Microsoft Translator API error: status - text", name,
                                    prompt_), TRUE)

ProviderNames == {"deepseek", "openai", "microsoft"}

\* the if/elif chain on service_name of _translate_short_text and
\* _translate_long_text; the else branch returns without calling an adapter
call_adapter(config, text_, prompt_, name, outcome) ==
    CASE name = "deepseek"  -> translate_with_deepseek(config, text_, prompt_, name, outcome)
      [] name = "openai"    -> translate_with_openai(config, text_, prompt_, name, outcome)
      [] name = "microsoft" -> translate_with_microsoft(config, text_, prompt_, name, outcome)

(***************************************************************************)
(* Inputs.                                                                 *)
(***************************************************************************)
RECURSIVE Repeat(_, _)
Repeat(unit, n) == IF n = 0 THEN <<>> ELSE unit \o Repeat(unit, n - 1)

Seqs(S, n) == UNION {[1..k -> S] : k \in 0..n}

Units == {<<"a", ".">>, <<"a", "a", ".">>, <<"a", ".", " ">>, <<"a", "a", ".", " ">>,
          <<"a">>, <<" ", ".">>, <<"a", "a", "a", "a", ".">>, <<"U+3002", "a", "U+FF01">>}

\* three one-letter sentences and a window of blanks: every third window of
\* the repeated text is empty after trimming
BlankWindowUnit == <<"a", ".", "a", ".", "a", ".", " ", " ", " ">>

Texts ==
    Seqs(Alphabet, MaxTextLen)
    \cup {Repeat(u, n) : u \in Units, n \in 1..MaxRepeat}
    \cup {Repeat(BlankWindowUnit, n) : n \in 3..5}

(***************************************************************************)
(* Stand-alone calls of the chunker.                                       *)
(***************************************************************************)
InitSplit ==
    /\ AVAILABLE_SERVICES = <<>>
    /\ session = <<>>
    /\ config_ops = 0
    /\ pc = "split"
    /\ text \in Texts
    /\ prompt = <<>>
    /\ service_name = ""
    /\ chunks = <<>>
    /\ translated_chunks = <<>>
    /\ attempt = 0
    /\ calls = <<>>
    /\ sleeps = <<>>
    /\ result = None
    /\ split_out = None
    /\ requested = None
    /\ sessions = EmptyDict
    /\ processing_history = <<>>
    /\ processor_log = <<>>
    /\ checked_config = None

SplitText ==
    /\ pc = "split"
    /\ pc' = "split_done"
    /\ split_out' = split_text(text)
    /\ UNCHANGED <<AVAILABLE_SERVICES, session, config_ops, text, prompt, service_name,
                   chunks, translated_chunks, attempt, calls, sleeps, result, requested, sessions,
                   processing_history, processor_log, checked_config>>

NextSplit == SplitText

SpecSplit == InitSplit /\ [][NextSplit]_vars

(***************************************************************************)
(* Inputs of the dispatcher.                                               *)
(***************************************************************************)
MaxConfigOps == 1        \* set_user_config / clear_user_config calls per behaviour

EnvKey  == <<"s", "k", "-", "e", "n", "v">>
UserKey == <<"s", "k", "-", "u", "s", "e", "r">>

EnvKeys    == {<<>>, EnvKey}
ConfigKeys == {<<>>, <<" ">>, UserKey, Placeholder}
ConfigModels == {None, "deepseek-coder"}
ConfigNames  == ProviderNames \cup {"ghost"}

\* the argument None (a missing text or prompt), which equals no str
NoneStr == <<None>>

RequestTexts ==
    {NoneStr, <<>>, <<" ">>, <<"a">>, <<"a", "a", "a">>, <<"a", "a", "a", "a">>,
     <<"a", ".", "b", ".">>, <<"a", ".", " ", " ", ".">>,
     <<"a", ".", "b", ".", "c", ".">>}

\* "to <Japanese>", the keyword being U+65E5 U+8BED
RequestPrompts == {NoneStr, <<>>, <<" ">>, <<"t", "o", " ", "U+65E5", "U+8BED">>}

\* "" stands for a request that names no service (None or '')
RequestServices == {""} \cup ProviderNames \cup {"ghost"}

\* the requests: every text with the usable prompt for every service, and the
\* texts and prompts that validation rejects (None, '', blank) in every
\* combination, with and without a service name
Rejected(s) == s \in {NoneStr, <<>>, <<" ">>}
Requests ==
    {r \in RequestTexts \X RequestPrompts \X RequestServices :
        (Rejected(r[1]) \/ Rejected(r[2])) =>
            /\ r[3] \in {"", "openai"}
            /\ Rejected(r[1]) \/ r[1] = <<"a">>}

(***************************************************************************)
(* TranslationService.translate_text and the two paths it takes.  A        *)
(* request runs from one transport call to the next in one step.           *)
(***************************************************************************)
Init ==
    /\ AVAILABLE_SERVICES \in {BaselineServices(k, k, k) : k \in EnvKeys}
    /\ session = EmptyDict
    /\ config_ops = 0
    /\ pc = "idle"
    /\ text = <<>>
    /\ prompt = <<>>
    /\ service_name = ""
    /\ chunks = <<>>
    /\ translated_chunks = <<>>
    /\ attempt = 0
    /\ calls = <<>>
    /\ sleeps = <<>>
    /\ result = None
    /\ split_out = None
    /\ requested = None
    /\ sessions = EmptyDict
    /\ processing_history = <<>>
    /\ processor_log = <<>>
    /\ checked_config = None

ERR_TIMEOUT == "Translation timeout. Please try again later or reduce text length."

\* "not s or not s.strip()" of the input validation
is_blank_no_strip(s) == s = NoneStr \/ s = <<>>
is_blank(s) == s = NoneStr \/ s = <<>> \/ strip(s) = <<>>

\* "if len(chunks) == 1" of _translate_long_text: fall back to the direct path
single_chunk_never(chunks_) == FALSE
single_chunk(chunks_) == Len(chunks_) = 1

\* translate_text up to the point where a path is entered
TranslateText(t, p, s) ==
    /\ pc = "idle"
    /\ text' = t
    /\ prompt' = p
    /\ requested' = s
    /\ UNCHANGED <<session, config_ops, translated_chunks, attempt, calls, sleeps, split_out,
                   sessions, processing_history, processor_log>>
    /\ IF is_blank(t)
       THEN /\ result' = Failure("Input text cannot be empty", "", p)
            /\ pc' = "done"
            /\ UNCHANGED <<AVAILABLE_SERVICES, service_name, chunks, checked_config>>
       ELSE IF is_blank(p)
       THEN /\ result' = Failure("Translation prompt cannot be empty", "", <<>>)
            /\ pc' = "done"
            /\ UNCHANGED <<AVAILABLE_SERVICES, service_name, chunks, checked_config>>
       ELSE LET name == IF s = "" THEN DEFAULT_TRANSLATION_SERVICE ELSE s
            IN  /\ service_name' = name
                /\ checked_config' = get_service_config(AVAILABLE_SERVICES, session, name)
                /\ AVAILABLE_SERVICES' =
                       baseline_after_get_service_config(AVAILABLE_SERVICES, session, name)
                /\ IF ~is_service_available(AVAILABLE_SERVICES, session, name)
                   THEN /\ result' = Failure("Translation service " \o name
                                  \o " is not available. Please check API key configuration.",
                                  name, p)
                        /\ pc' = "done"
                        /\ UNCHANGED chunks
                   ELSE /\ UNCHANGED result
                        /\ IF Len(t) > max_chunk_size
                           THEN /\ chunks' = split_text(t)
                                /\ pc' = IF single_chunk(split_text(t)) THEN "short" ELSE "long"
                           ELSE /\ UNCHANGED chunks
                                /\ pc' = "short"

\* the entry of the transport log for a call that was posted
\* (r is what the adapter made of the response)
Call(config, text_, prompt_, timeout, part, outcome, r) ==
    [service |-> service_name, api_key |-> config.api_key, model |-> config.model,
     text |-> text_, prompt |-> prompt_, timeout |-> timeout, part |-> part,
     outcome |-> outcome, raised |-> r.raised, value |-> r.value]

\* "except requests.exceptions.Timeout" of _translate_short_text: the one
\* exception the retry loop retries
retried_any(exception) == exception # ""
retried(exception) == exception = "Timeout"

\* "if result.get('error')" of _translate_long_text
chunk_failed_never(value) == FALSE
chunk_failed(value) == value.error # None /\ value.error # ""

\* "if attempt < self.max_retries - 1" of the timeout handler: another attempt follows
retry_left_always(attempt_) == TRUE
retry_left_never(attempt_) == FALSE
retry_left(attempt_) == attempt_ < max_retries - 1

\* one iteration of "for attempt in range(self.max_retries)" of _translate_short_text
ShortAttempt(outcome) ==
    /\ pc = "short"
    /\ attempt < max_retries
    /\ UNCHANGED <<session, config_ops, text, prompt, service_name,
                   chunks, translated_chunks, split_out, requested, sessions,
                   processing_history, processor_log, checked_config>>
    /\ IF service_name \notin ProviderNames
       THEN /\ result' = Failure("Unsupported translation service: " \o service_name,
                                 service_name, prompt)
            /\ pc' = "done"
            /\ UNCHANGED <<AVAILABLE_SERVICES, attempt, calls, sleeps>>
       ELSE LET config == get_service_config(AVAILABLE_SERVICES, session, service_name)
                r      == call_adapter(config, text, prompt, service_name, outcome)
            IN  /\ AVAILABLE_SERVICES' =
                       baseline_after_get_service_config(AVAILABLE_SERVICES, session,
                                                         service_name)
                /\ calls' = IF r.posted
                            THEN Append(calls, Call(config, text, prompt, timeout_short,
                                                    0, outcome, r))
                            ELSE calls
                /\ CASE r.raised = "" ->
                          /\ result' = r.value
                          /\ pc' = "done"
                          /\ UNCHANGED <<attempt, sleeps>>
                     [] retried(r.raised) /\ retry_left(attempt) ->
                          /\ sleeps' = Append(sleeps, [seconds |-> retry_delay,
                                                       after_call |-> Len(calls')])
                          /\ attempt' = attempt + 1
                          /\ UNCHANGED <<pc, result>>
                     [] retried(r.raised) /\ ~retry_left(attempt) ->
                          /\ result' = Failure(ERR_TIMEOUT, service_name, prompt)
                          /\ pc' = "done"
                          /\ UNCHANGED <<attempt, sleeps>>
                     [] OTHER ->
                          /\ result' = Failure("Translation failed: " \o r.raised,
                                               service_name, prompt)
                          /\ pc' = "done"
                          /\ UNCHANGED <<attempt, sleeps>>

\* decimal digits of a natural number, as str(n) writes them
Digit == <<"0", "1", "2", "3", "4", "5", "6", "7", "8", "9">>

RECURSIVE str(_)
str(n) == IF n < 10 THEN <<Digit[n + 1]>> ELSE Append(str(n \div 10), Digit[(n % 10) + 1])

\* f"{prompt}\n\n(Part {i}/{total_chunks})"
chunk_prompt_zero_based(prompt_, i, total_chunks) ==
    prompt_ \o <<"\n", "\n", "(", "P", "a", "r", "t", " ">> \o str(i - 1) \o <<"/">>
            \o str(total_chunks) \o <<")">>
chunk_prompt(prompt_, i, total_chunks) ==
    prompt_ \o <<"\n", "\n", "(", "P", "a", "r", "t", " ">> \o str(i) \o <<"/">>
            \o str(total_chunks) \o <<")">>

RECURSIVE Reverse(_)
Reverse(q) == IF q = <<>> THEN <<>> ELSE Append(Reverse(Tail(q)), Head(q))

combined_reversed(translated, name, prompt_, total_chunks) ==
    [translated_text |-> join(<<"\n", "\n">>, Reverse(translated)), service_used |-> name,
     prompt_used |-> prompt_, error |-> None, chunks_translated |-> total_chunks]

combined_count_last(translated, name, prompt_, total_chunks) ==
    [translated_text |-> join(<<"\n", "\n">>, translated), service_used |-> name,
     prompt_used |-> prompt_, error |-> None, chunks_translated |-> total_chunks - 1]

\* the result _translate_long_text returns after its loop
combined(translated, name, prompt_, total_chunks) ==
    [translated_text |-> join(<<"\n", "\n">>, translated), service_used |-> name,
     prompt_used |-> prompt_, error |-> None, chunks_translated |-> total_chunks]

\* the chunk "for i, chunk in enumerate(chunks, 1)" visits once the chunks
\* before it are translated
next_chunk_reversed(chunks_, translated) == chunks_[Len(chunks_) - Len(translated)]
next_chunk(chunks_, translated) == chunks_[Len(translated) + 1]

\* one iteration of "for i, chunk in enumerate(chunks, 1)" of _translate_long_text,
\* and what follows the loop when it was the last one
LongChunk(outcome) ==
    /\ pc = "long"
    /\ UNCHANGED <<session, config_ops, text, prompt, service_name,
                   chunks, attempt, sleeps, split_out, requested, sessions,
                   processing_history, processor_log, checked_config>>
    /\ LET i            == Len(translated_chunks) + 1
           chunk        == next_chunk(chunks, translated_chunks)
           total_chunks == Len(chunks)
           part_prompt  == chunk_prompt(prompt, i, total_chunks)
       IN  IF service_name \notin ProviderNames
           THEN /\ result' = Failure("Unsupported translation service: " \o service_name,
                                     service_name, prompt)
                /\ pc' = "done"
                /\ UNCHANGED <<AVAILABLE_SERVICES, translated_chunks, calls>>
           ELSE LET config == get_service_config(AVAILABLE_SERVICES, session, service_name)
                    r      == call_adapter(config, chunk, part_prompt, service_name, outcome)
                IN  /\ AVAILABLE_SERVICES' =
                           baseline_after_get_service_config(AVAILABLE_SERVICES, session,
                                                             service_name)
                    /\ calls' = IF r.posted
                                THEN Append(calls, Call(config, chunk, part_prompt,
                                                        timeout_long, i, outcome, r))
                                ELSE calls
                    /\ CASE r.raised = "" /\ chunk_failed(r.value) ->
                              /\ result' = r.value
                              /\ pc' = "done"
                              /\ UNCHANGED translated_chunks
                         [] r.raised = "" /\ ~chunk_failed(r.value) ->
                              /\ translated_chunks' =
                                     Append(translated_chunks, r.value.translated_text)
                              /\ IF i = total_chunks
                                 THEN /\ result' = combined(translated_chunks', service_name,
                                                            prompt, total_chunks)
                                      /\ pc' = "done"
                                 ELSE UNCHANGED <<pc, result>>
                         [] r.raised = "Timeout" ->
                              /\ result' = Failure("Translation timeout on part "
                                     \o ToString(i)
                                     \o ". Please try again later or reduce text length.",
                                     service_name, prompt)
                              /\ pc' = "done"
                              /\ UNCHANGED translated_chunks
                         [] OTHER ->
                              /\ result' = Failure("Translation failed on part "
                                     \o ToString(i) \o ": " \o r.raised, service_name, prompt)
                              /\ pc' = "done"
                              /\ UNCHANGED translated_chunks

\* TranslationConfig.set_user_config called by another request of the session,
\* before the translate_text request or while it is running
SetUserConfig(name, api_key, model) ==
    /\ pc # "done"
    /\ config_ops < MaxConfigOps
    /\ config_ops' = config_ops + 1
    /\ session' = set_user_config(session, name, api_key, model)
    /\ UNCHANGED <<AVAILABLE_SERVICES, pc, text, prompt, service_name, chunks,
                   translated_chunks, attempt, calls, sleeps, result, split_out, requested, sessions,
                   processing_history, processor_log, checked_config>>

\* TranslationConfig.clear_user_config called by another request of the session,
\* before the translate_text request or while it is running
ClearUserConfig(name) ==
    /\ pc # "done"
    /\ config_ops < MaxConfigOps
    /\ config_ops' = config_ops + 1
    /\ session' = clear_user_config(session, name)
    /\ UNCHANGED <<AVAILABLE_SERVICES, pc, text, prompt, service_name, chunks,
                   translated_chunks, attempt, calls, sleeps, result, split_out, requested, sessions,
                   processing_history, processor_log, checked_config>>

Next ==
    \/ \E r \in Requests : TranslateText(r[1], r[2], r[3])
    \/ \E outcome \in Outcomes : ShortAttempt(outcome)
    \/ \E outcome \in Outcomes : LongChunk(outcome)
    \/ \E name \in ConfigNames, api_key \in ConfigKeys, model \in ConfigModels :
           SetUserConfig(name, api_key, model)
    \/ \E name \in ConfigNames : ClearUserConfig(name)

Spec == Init /\ [][Next]_vars

\* One request on its own: the session holds at most one override, stored
\* before the request, and no settings request runs beside it.  A request that
\* has entered a path goes on: session.post returns or raises within its
\* timeout and time.sleep returns, so the next iteration of the retry loop or
\* of the chunk loop is eventually taken.
InitRequest ==
    /\ AVAILABLE_SERVICES \in {BaselineServices(k, k, k) : k \in EnvKeys}
    /\ session \in {EmptyDict}
                   \cup {set_user_config(EmptyDict, name, api_key, model) :
                            name \in ConfigNames, api_key \in ConfigKeys,
                            model \in ConfigModels}
    /\ config_ops = 0
    /\ pc = "idle"
    /\ text = <<>>
    /\ prompt = <<>>
    /\ service_name = ""
    /\ chunks = <<>>
    /\ translated_chunks = <<>>
    /\ attempt = 0
    /\ calls = <<>>
    /\ sleeps = <<>>
    /\ result = None
    /\ split_out = None
    /\ requested = None
    /\ sessions = EmptyDict
    /\ processing_history = <<>>
    /\ processor_log = <<>>
    /\ checked_config = None

NextRequest ==
    \/ \E r \in Requests : TranslateText(r[1], r[2], r[3])
    \/ \E outcome \in Outcomes : ShortAttempt(outcome)
    \/ \E outcome \in Outcomes : LongChunk(outcome)

SpecFair ==
    /\ InitRequest
    /\ [][NextRequest]_vars
    /\ WF_vars(\E outcome \in Outcomes : ShortAttempt(outcome))
    /\ WF_vars(\E outcome \in Outcomes : LongChunk(outcome))

(***************************************************************************)
(* TranslationConfig on its own: the settings requests of one session call *)
(* set_user_config and clear_user_config, and any request may read the     *)
(* resolved configuration.  pc names the call that returned last, result   *)
(* holds what it returned and service_name the name it was given.          *)
(***************************************************************************)
MaxConfigCalls == 2      \* set_user_config / clear_user_config calls per session

ConfigPcs == {"config", "set_user_config", "clear_user_config", "get_service_config",
              "is_service_available", "get_all_services", "get_enabled_services",
              "get_config_summary"}

InitConfig ==
    \* OPENAI_API_KEY is set, MICROSOFT_API_KEY is not, DEEPSEEK_API_KEY is either
    /\ AVAILABLE_SERVICES \in {BaselineServices(k, EnvKey, <<>>) : k \in EnvKeys}
    /\ session = EmptyDict
    /\ config_ops = 0
    /\ pc = "config"
    /\ text = <<>>
    /\ prompt = <<>>
    /\ service_name = ""
    /\ chunks = <<>>
    /\ translated_chunks = <<>>
    /\ attempt = 0
    /\ calls = <<>>
    /\ sleeps = <<>>
    /\ result = None
    /\ split_out = None
    /\ requested = None
    /\ sessions = EmptyDict
    /\ processing_history = <<>>
    /\ processor_log = <<>>
    /\ checked_config = None

\* TranslationConfig.set_user_config(name, api_key, model)
SetUserConfigCall(name, api_key, model) ==
    /\ pc \in ConfigPcs
    /\ config_ops < MaxConfigCalls
    /\ config_ops' = config_ops + 1
    /\ session' = set_user_config(session, name, api_key, model)
    /\ pc' = "set_user_config"
    /\ service_name' = name
    /\ result' = None
    /\ UNCHANGED <<AVAILABLE_SERVICES, text, prompt, chunks, translated_chunks, attempt,
                   calls, sleeps, split_out, requested, sessions,
                   processing_history, processor_log, checked_config>>

\* TranslationConfig.clear_user_config(name)
ClearUserConfigCall(name) ==
    /\ pc \in ConfigPcs
    /\ config_ops < MaxConfigCalls
    /\ config_ops' = config_ops + 1
    /\ session' = clear_user_config(session, name)
    /\ pc' = "clear_user_config"
    /\ service_name' = name
    /\ result' = None
    /\ UNCHANGED <<AVAILABLE_SERVICES, text, prompt, chunks, translated_chunks, attempt,
                   calls, sleeps, split_out, requested, sessions,
                   processing_history, processor_log, checked_config>>

\* TranslationConfig.get_service_config(name)
GetServiceConfigCall(name) ==
    /\ pc \in ConfigPcs
    /\ pc' = "get_service_config"
    /\ service_name' = name
    /\ result' = get_service_config(AVAILABLE_SERVICES, session, name)
    /\ AVAILABLE_SERVICES' = baseline_after_get_service_config(AVAILABLE_SERVICES, session, name)
    /\ UNCHANGED <<session, config_ops, text, prompt, chunks,
                   translated_chunks, attempt, calls, sleeps, split_out, requested, sessions,
                   processing_history, processor_log, checked_config>>

\* TranslationConfig.is_service_available(name)
IsServiceAvailableCall(name) ==
    /\ pc \in ConfigPcs
    /\ pc' = "is_service_available"
    /\ service_name' = name
    /\ result' = is_service_available(AVAILABLE_SERVICES, session, name)
    /\ AVAILABLE_SERVICES' = baseline_after_get_service_config(AVAILABLE_SERVICES, session, name)
    /\ UNCHANGED <<session, config_ops, text, prompt, chunks,
                   translated_chunks, attempt, calls, sleeps, split_out, requested, sessions,
                   processing_history, processor_log, checked_config>>

\* TranslationConfig.get_all_services()
GetAllServicesCall ==
    /\ pc \in ConfigPcs
    /\ pc' = "get_all_services"
    /\ service_name' = ""
    /\ result' = get_all_services(AVAILABLE_SERVICES, session)
    /\ AVAILABLE_SERVICES' = baseline_after_get_all_services(AVAILABLE_SERVICES, session)
    /\ UNCHANGED <<session, config_ops, text, prompt, chunks,
                   translated_chunks, attempt, calls, sleeps, split_out, requested, sessions,
                   processing_history, processor_log, checked_config>>

\* TranslationConfig.get_enabled_services()
GetEnabledServicesCall ==
    /\ pc \in ConfigPcs
    /\ pc' = "get_enabled_services"
    /\ service_name' = ""
    /\ result' = get_enabled_services(AVAILABLE_SERVICES, session)
    /\ AVAILABLE_SERVICES' = baseline_after_get_enabled_services(AVAILABLE_SERVICES, session)
    /\ UNCHANGED <<session, config_ops, text, prompt, chunks,
                   translated_chunks, attempt, calls, sleeps, split_out, requested, sessions,
                   processing_history, processor_log, checked_config>>

\* TranslationConfig.get_config_summary()
GetConfigSummaryCall ==
    /\ pc \in ConfigPcs
    /\ pc' = "get_config_summary"
    /\ service_name' = ""
    /\ result' = get_config_summary(AVAILABLE_SERVICES, session)
    /\ AVAILABLE_SERVICES' = baseline_after_get_enabled_services(AVAILABLE_SERVICES, session)
    /\ UNCHANGED <<session, config_ops, text, prompt, chunks,
                   translated_chunks, attempt, calls, sleeps, split_out, requested, sessions,
                   processing_history, processor_log, checked_config>>

NextConfig ==
    \/ \E name \in ConfigNames, api_key \in ConfigKeys, model \in ConfigModels :
           SetUserConfigCall(name, api_key, model)
    \/ \E name \in ConfigNames : ClearUserConfigCall(name)
    \/ \E name \in ConfigNames : GetServiceConfigCall(name)
    \/ \E name \in ConfigNames : IsServiceAvailableCall(name)
    \/ GetAllServicesCall
    \/ GetEnabledServicesCall
    \/ GetConfigSummaryCall

SpecConfig == InitConfig /\ [][NextConfig]_vars

(***************************************************************************)
(* TranslationConfig called from the requests of two clients.  Flask binds *)
(* the name "session" to the session of the client whose request is being  *)
(* served; AVAILABLE_SERVICES is a class attribute all requests share.     *)
(***************************************************************************)
MaxSessionCalls == 2     \* set_user_config / clear_user_config calls of all clients together

SessionIds   == {"A", "B"}
SessionKeys  == {<<>>, UserKey}
SessionPcs   == {"sessions", "set_user_config", "clear_user_config", "get_service_config",
                 "get_all_services"}

\* the session that "session" denotes while a request of client sid is served
request_session_shared(sid) == "A"
request_session(sid) == sid

InitSessions ==
    /\ AVAILABLE_SERVICES \in {BaselineServices(k, EnvKey, <<>>) : k \in EnvKeys}
    /\ session = EmptyDict
    /\ config_ops = 0
    /\ pc = "sessions"
    /\ text = <<>>
    /\ prompt = <<>>
    /\ service_name = ""
    /\ chunks = <<>>
    /\ translated_chunks = <<>>
    /\ attempt = 0
    /\ calls = <<>>
    /\ sleeps = <<>>
    /\ result = None
    /\ split_out = None
    /\ requested = None
    /\ sessions = [sid \in SessionIds |-> EmptyDict]
    /\ processing_history = <<>>
    /\ processor_log = <<>>
    /\ checked_config = None

\* set_user_config(name, api_key, None) in a request of client sid
SessionSetUserConfig(sid, name, api_key) ==
    /\ pc \in SessionPcs
    /\ config_ops < MaxSessionCalls
    /\ config_ops' = config_ops + 1
    /\ sessions' = [sessions EXCEPT ![request_session(sid)] =
                        set_user_config(@, name, api_key, None)]
    /\ pc' = "set_user_config"
    /\ service_name' = name
    /\ result' = None
    /\ UNCHANGED <<AVAILABLE_SERVICES, session, text, prompt, chunks, translated_chunks,
                   attempt, calls, sleeps, split_out, requested,
                   processing_history, processor_log, checked_config>>

\* clear_user_config(name) in a request of client sid
SessionClearUserConfig(sid, name) ==
    /\ pc \in SessionPcs
    /\ config_ops < MaxSessionCalls
    /\ config_ops' = config_ops + 1
    /\ sessions' = [sessions EXCEPT ![request_session(sid)] = clear_user_config(@, name)]
    /\ pc' = "clear_user_config"
    /\ service_name' = name
    /\ result' = None
    /\ UNCHANGED <<AVAILABLE_SERVICES, session, text, prompt, chunks, translated_chunks,
                   attempt, calls, sleeps, split_out, requested,
                   processing_history, processor_log, checked_config>>

\* get_service_config(name) in a request of client sid
SessionGetServiceConfig(sid, name) ==
    /\ pc \in SessionPcs
    /\ pc' = "get_service_config"
    /\ service_name' = name
    /\ result' = get_service_config(AVAILABLE_SERVICES, sessions[request_session(sid)], name)
    /\ AVAILABLE_SERVICES' =
           baseline_after_get_service_config(AVAILABLE_SERVICES,
                                             sessions[request_session(sid)], name)
    /\ UNCHANGED <<session, config_ops, text, prompt, chunks, translated_chunks,
                   attempt, calls, sleeps, split_out, requested, sessions,
                   processing_history, processor_log, checked_config>>

\* get_all_services() in a request of client sid
SessionGetAllServices(sid) ==
    /\ pc \in SessionPcs
    /\ pc' = "get_all_services"
    /\ service_name' = ""
    /\ result' = get_all_services(AVAILABLE_SERVICES, sessions[request_session(sid)])
    /\ AVAILABLE_SERVICES' =
           baseline_after_get_all_services(AVAILABLE_SERVICES,
                                           sessions[request_session(sid)])
    /\ UNCHANGED <<session, config_ops, text, prompt, chunks, translated_chunks,
                   attempt, calls, sleeps, split_out, requested, sessions,
                   processing_history, processor_log, checked_config>>

NextSessions ==
    \/ \E sid \in SessionIds, name \in ConfigNames, api_key \in SessionKeys :
           SessionSetUserConfig(sid, name, api_key)
    \/ \E sid \in SessionIds, name \in ConfigNames : SessionClearUserConfig(sid, name)
    \/ \E sid \in SessionIds, name \in ConfigNames : SessionGetServiceConfig(sid, name)
    \/ \E sid \in SessionIds : SessionGetAllServices(sid)

SpecSessions == InitSessions /\ [][NextSessions]_vars

(***************************************************************************)
(* The whole service: a behaviour is either one translate_text request     *)
(* with the settings changes around it, or a sequence of TranslationConfig *)
(* calls.                                                                  *)
(***************************************************************************)
InitService == Init \/ InitConfig

NextService == Next \/ NextConfig

SpecService == InitService /\ [][NextService]_vars

(***************************************************************************)
(* Stand-alone calls of the language hinter.                               *)
(***************************************************************************)
MaxHintWords == 2        \* words per prompt

\* words of a prompt: language names in several cases, two keywords written in
\* Chinese (U+65E5 U+8BED and U+4E2D U+6587) and a word that is no keyword
HintWords ==
    {<<"J", "a", "p", "a", "n", "e", "s", "e">>,
     <<"E", "N", "G", "L", "I", "S", "H">>,
     <<"e", "n", "g", "l", "i", "s", "h">>,
     <<"G", "e", "r", "m", "a", "n">>,
     <<"f", "r", "e", "n", "c", "h">>,
     <<"p", "l", "e", "a", "s", "e">>,
     <<"C", "h", "i", "n", "a">>,
     <<"U+65E5", "U+8BED">>,
     <<"U+4E2D", "U+6587">>}

RECURSIVE HintPromptsOf(_)
HintPromptsOf(n) ==
    IF n = 0 THEN {<<>>}
    ELSE HintPromptsOf(n - 1)
         \cup {p \o (IF p = <<>> THEN <<>> ELSE <<" ">>) \o w :
                   p \in HintPromptsOf(n - 1), w \in HintWords}

HintPrompts == HintPromptsOf(MaxHintWords)

InitHint ==
    /\ AVAILABLE_SERVICES = BaselineServices(<<>>, <<>>, <<>>)
    /\ session = EmptyDict
    /\ config_ops = 0
    /\ pc = "hint"
    /\ text = <<>>
    /\ prompt \in HintPrompts
    /\ service_name = ""
    /\ chunks = <<>>
    /\ translated_chunks = <<>>
    /\ attempt = 0
    /\ calls = <<>>
    /\ sleeps = <<>>
    /\ result = None
    /\ split_out = None
    /\ requested = None
    /\ sessions = EmptyDict
    /\ processing_history = <<>>
    /\ processor_log = <<>>
    /\ checked_config = None

\* one call of _extract_target_language_from_prompt(prompt)
ExtractTargetLanguage ==
    /\ pc = "hint"
    /\ pc' = "hint_done"
    /\ result' = extract_target_language_from_prompt(prompt)
    /\ UNCHANGED <<AVAILABLE_SERVICES, session, config_ops, text, prompt, service_name,
                   chunks, translated_chunks, attempt, calls, sleeps, split_out, requested, sessions,
                   processing_history, processor_log, checked_config>>

NextHint == ExtractTargetLanguage

SpecHint == InitHint /\ [][NextHint]_vars

(***************************************************************************)
(* TextProcessor (src/core/text_processor.py): the processing history of   *)
(* the global text_processor.  A text is None (NoneStr), a str (a sequence *)
(* of characters) or an int (IntSeven, IntZero); the formatter's and the   *)
(* analyzer's outputs are left out of the result, the history does not     *)
(* depend on them.                                                         *)
(***************************************************************************)
MaxProcessorCalls == 3

IntSeven == <<"<int 7>">>
IntZero  == <<"<int 0>">>
NoneOps  == <<None>>                       \* operations = None
DefaultOperations == <<"format", "statistics", "analysis">>

ProcessorTexts == {NoneStr, <<>>, <<" ">>, <<"a">>, <<"a", " ">>, IntSeven, IntZero}
ProcessorOperations == {NoneOps, <<>>, <<"format">>, <<"statistics", "bogus">>}
\* a rule is a (pattern, replacement) tuple; "(" is not a regular expression
\* and <<"a">> is not a pair
RegexRuleLists ==
    {<<>>, << <<"a", "b">> >>, << <<"(", "b">> >>, << <<"a">> >>,
     << <<"a", "b">>, <<"a">> >>}

isinstance_str(t) == t \notin {NoneStr, IntSeven, IntZero}
str_of(t) == IF t = IntSeven THEN <<"7">> ELSE IF t = IntZero THEN <<"0">> ELSE t
truthy(t) == IF isinstance_str(t) THEN t # <<>> ELSE t # IntZero

ERR_TEXT_NONE  == "Input text cannot be None"
ERR_TEXT_EMPTY == "Input text cannot be empty"
ERR_NO_RULES   == "Regex rules cannot be empty"
ERR_NO_STRIP   == "'int' object has no attribute 'strip'"
ERR_NO_LEN     == "object of type 'int' has no len()"
ERR_UNPACK     == "not enough values to unpack (expected 2, got 1)"

\* _validate_input: the error it returns, None for {'valid': True}
validate_input(t) ==
    IF t = NoneStr THEN ERR_TEXT_NONE
    ELSE LET s == IF isinstance_str(t) THEN t ELSE str_of(t)
         IN  IF s = <<>> \/ strip(s) = <<>> THEN ERR_TEXT_EMPTY ELSE None

\* _record_processing_history (the timestamp is left out)
record_processing_history_twice(history, operations, text_length, kwargs) ==
    history \o << [operations |-> operations, text_length |-> text_length] @@ kwargs,
                  [operations |-> operations, text_length |-> text_length] @@ kwargs >>
record_processing_history(history, operations, text_length, kwargs) ==
    Append(history, [operations |-> operations, text_length |-> text_length] @@ kwargs)

\* "'format' in operations"
In(op, operations) == \E i \in DOMAIN operations : operations[i] = op

\* format_text, generate_statistics and analyze_text all start with
\* "if not text or not text.strip()", outside their try block: a truthy text
\* that is no str raises AttributeError, any other text returns
strip_raises(t) == truthy(t) /\ ~isinstance_str(t)

\* process_text: the result and the history after the call
process_text(history, t, operations) ==
    LET invalid == validate_input(t)
        ops     == IF operations = NoneOps THEN DefaultOperations ELSE operations
        used    == \E op \in {"format", "statistics", "analysis"} : In(op, ops)
    IN  IF invalid # None
        THEN [result |-> [error |-> invalid], history |-> history]
        ELSE IF used /\ strip_raises(t)
        THEN [result |-> [error |-> "Processing error: " \o ERR_NO_STRIP,
                          original_text |-> t, operations |-> ops],
              history |-> history]
        ELSE IF ~isinstance_str(t)              \* len(text) raises TypeError
        THEN [result |-> [error |-> "Processing error: " \o ERR_NO_LEN,
                          original_text |-> t, operations |-> ops],
              history |-> history]
        ELSE [result |-> [error |-> None, original_text |-> t, operations |-> ops],
              history |-> record_processing_history(history, ops, Len(t), EmptyDict)]

\* process_text_with_regex: apply_regex_replacements returns at once for a
\* falsy text, skips a rule whose pattern re.compile or re.sub rejects, and
\* raises on a rule that does not unpack into (pattern, replacement)
process_text_with_regex(history, t, regex_rules) ==
    LET invalid == validate_input(t)
        unpack_raises == truthy(t) /\ \E i \in DOMAIN regex_rules : Len(regex_rules[i]) # 2
    IN  IF invalid # None
        THEN [result |-> [error |-> invalid], history |-> history]
        ELSE IF regex_rules = <<>>
        THEN [result |-> [error |-> ERR_NO_RULES, regex_rules |-> regex_rules],
              history |-> history]
        ELSE IF unpack_raises
        THEN [result |-> [error |-> "Regex processing error: " \o ERR_UNPACK,
                          regex_rules |-> regex_rules],
              history |-> history]
        ELSE IF ~isinstance_str(t)              \* len(text) raises TypeError
        THEN [result |-> [error |-> "Regex processing error: " \o ERR_NO_LEN,
                          regex_rules |-> regex_rules],
              history |-> history]
        ELSE [result |-> [error |-> None, original_text |-> t,
                          regex_rules |-> regex_rules],
              history |-> record_processing_history(
                              history, <<"regex">>, Len(t),
                              [regex_rules_count |-> Len(regex_rules)])]

clear_history(history) == <<>>

\* a copy of the list
get_processing_history(history) == history

InitProcessor ==
    /\ AVAILABLE_SERVICES = BaselineServices(<<>>, <<>>, <<>>)
    /\ session = EmptyDict
    /\ config_ops = 0
    /\ pc = "processor"
    /\ text = <<>>
    /\ prompt = <<>>
    /\ service_name = ""
    /\ chunks = <<>>
    /\ translated_chunks = <<>>
    /\ attempt = 0
    /\ calls = <<>>
    /\ sleeps = <<>>
    /\ result = None
    /\ split_out = None
    /\ requested = None
    /\ sessions = EmptyDict
    /\ processing_history = <<>>
    /\ processor_log = <<>>
    /\ checked_config = None

Logged(op, t, error) == Append(processor_log, [op |-> op, text |-> t, error |-> error])

ProcessText(t, operations) ==
    /\ pc = "processor"
    /\ Len(processor_log) < MaxProcessorCalls
    /\ LET r == process_text(processing_history, t, operations)
       IN  /\ result' = r.result
           /\ processing_history' = r.history
           /\ processor_log' = Logged("process_text", t, r.result.error)
    /\ UNCHANGED <<AVAILABLE_SERVICES, session, config_ops, pc, text, prompt, service_name,
                   chunks, translated_chunks, attempt, calls, sleeps, split_out, requested,
                   sessions, checked_config>>

ProcessTextWithRegex(t, regex_rules) ==
    /\ pc = "processor"
    /\ Len(processor_log) < MaxProcessorCalls
    /\ LET r == process_text_with_regex(processing_history, t, regex_rules)
       IN  /\ result' = r.result
           /\ processing_history' = r.history
           /\ processor_log' = Logged("process_text_with_regex", t, r.result.error)
    /\ UNCHANGED <<AVAILABLE_SERVICES, session, config_ops, pc, text, prompt, service_name,
                   chunks, translated_chunks, attempt, calls, sleeps, split_out, requested,
                   sessions, checked_config>>

ClearHistory ==
    /\ pc = "processor"
    /\ Len(processor_log) < MaxProcessorCalls
    /\ result' = None
    /\ processing_history' = clear_history(processing_history)
    /\ processor_log' = Logged("clear_history", <<>>, None)
    /\ UNCHANGED <<AVAILABLE_SERVICES, session, config_ops, pc, text, prompt, service_name,
                   chunks, translated_chunks, attempt, calls, sleeps, split_out, requested,
                   sessions, checked_config>>

GetProcessingHistory ==
    /\ pc = "processor"
    /\ Len(processor_log) < MaxProcessorCalls
    /\ result' = get_processing_history(processing_history)
    /\ processor_log' = Logged("get_processing_history", <<>>, None)
    /\ UNCHANGED <<AVAILABLE_SERVICES, session, config_ops, pc, text, prompt, service_name,
                   chunks, translated_chunks, attempt, calls, sleeps, split_out, requested,
                   sessions, processing_history, checked_config>>

NextProcessor ==
    \/ \E t \in ProcessorTexts, operations \in ProcessorOperations : ProcessText(t, operations)
    \/ \E t \in ProcessorTexts, regex_rules \in RegexRuleLists :
           ProcessTextWithRegex(t, regex_rules)
    \/ ClearHistory
    \/ GetProcessingHistory

SpecProcessor == InitProcessor /\ [][NextProcessor]_vars

(***************************************************************************)
(* The request body of the chat-completion adapters (the lines between the *)
(* key test and session.post), for texts of real length.                   *)
(***************************************************************************)
MaxLengthSteps == 90     \* texts of up to 50 * MaxLengthSteps + 49 characters

TokenLengths == {50 * k + d : k \in 0..MaxLengthSteps, d \in {0, 1, 49}}

Min(a, b) == IF a < b THEN a ELSE b
Max(a, b) == IF a > b THEN a ELSE b

\* "estimated_tokens = len(text) * 2" and "max_tokens = min(max(estimated_tokens, 2000), 8000)"
max_tokens_unclamped(text_) == Len(text_) * 2
max_tokens(text_) ==
    LET estimated_tokens == Len(text_) * 2
    IN  Min(Max(estimated_tokens, 2000), 8000)

\* the backtick is written by its code point
Fence == <<"U+0060", "U+0060", "U+0060">>
TextToTranslate ==
    <<"\n", "\n", "T", "e", "x", "t", " ", "t", "o", " ",
      "t", "r", "a", "n", "s", "l", "a", "t", "e", ":", "\n">>

\* full_prompt: deepseek puts the text between two fences, openai does not
full_prompt(name, text_, prompt_) ==
    IF name = "deepseek" THEN prompt_ \o TextToTranslate \o Fence \o text_ \o Fence
    ELSE prompt_ \o TextToTranslate \o text_

\* the payload of _translate_with_deepseek and _translate_with_openai
payload(config, name, text_, prompt_) ==
    [model |-> config.model,
     messages |-> << [role |-> "user", content |-> full_prompt(name, text_, prompt_)] >>,
     temperature |-> "0.7",
     max_tokens |-> max_tokens(text_)]

InitTokens ==
    /\ AVAILABLE_SERVICES = BaselineServices(EnvKey, EnvKey, EnvKey)
    /\ session = EmptyDict
    /\ config_ops = 0
    /\ pc = "payload"
    /\ text \in {[i \in 1..n |-> "a"] : n \in TokenLengths}
    /\ prompt = <<"t", "o", " ", "U+65E5", "U+8BED">>
    /\ service_name = ""
    /\ chunks = <<>>
    /\ translated_chunks = <<>>
    /\ attempt = 0
    /\ calls = <<>>
    /\ sleeps = <<>>
    /\ result = None
    /\ split_out = None
    /\ requested = None
    /\ sessions = EmptyDict
    /\ processing_history = <<>>
    /\ processor_log = <<>>
    /\ checked_config = None

\* a chat-completion adapter builds the body of its request
BuildPayload(name) ==
    /\ pc = "payload"
    /\ pc' = "payload_built"
    /\ service_name' = name
    /\ result' = payload(get_service_config(AVAILABLE_SERVICES, session, name),
                         name, text, prompt)
    /\ AVAILABLE_SERVICES' =
           baseline_after_get_service_config(AVAILABLE_SERVICES, session, name)
    /\ UNCHANGED <<session, config_ops, text, prompt, chunks, translated_chunks, attempt,
                   calls, sleeps, split_out, requested, sessions,
                   processing_history, processor_log, checked_config>>

NextTokens == \E name \in {"deepseek", "openai"} : BuildPayload(name)

SpecTokens == InitTokens /\ [][NextTokens]_vars

(***************************************************************************)
(* The HTTP configuration endpoints (src/api/routes.py):                   *)
(* POST and DELETE /translation-services/<service_name>/config.            *)
(* A request body is JSON or not; its data is a function from field names  *)
(* to values.  A key is a str or null (NoneStr); a model name is an atom,  *)
(* null being None.                                                        *)
(***************************************************************************)
MaxRouteCalls == 2

LongKey == <<"s", "k", "-", "u", "s", "e", "r", "-", "0", "1">>
RouteKeys ==
    {<<>>, <<" ">>, UserKey, LongKey, <<" ">> \o LongKey \o <<"\n">>,
     <<"p", "y", "t", "h", "o", "n", " ", "r", "u", "n", ".", "p", "y">>,
     Placeholder, NoneStr}
RouteModels == {"", " ", "deepseek-coder", " gpt-4", "gpt-4", "bogus", None}
RouteData ==
    {EmptyDict}
    \cup {[api_key |-> k] : k \in RouteKeys}
    \cup {[model |-> m] : m \in RouteModels}
    \cup {[api_key |-> k, model |-> m] : k \in RouteKeys, m \in RouteModels}
RouteBodies ==
    {[is_json |-> FALSE, data |-> EmptyDict]} \cup {[is_json |-> TRUE, data |-> d] : d \in RouteData}

\* TranslationConfig.AVAILABLE_MODELS
AVAILABLE_MODELS ==
    [n \in {"deepseek", "openai", "microsoft"} |->
        CASE n = "deepseek"  -> {"deepseek-chat", "deepseek-coder", "deepseek-chat-33b"}
          [] n = "openai"    -> {"gpt-3.5-turbo", "gpt-3.5-turbo-16k", "gpt-4", "gpt-4-turbo",
                                 "gpt-4-32k"}
          [] n = "microsoft" -> {"api-version-3.0"}]

get_available_models_for_service(name) == Get(AVAILABLE_MODELS, name, {})

\* str.strip() on a model name
strip_model(m) == IF m = " " THEN "" ELSE IF m = " gpt-4" THEN "gpt-4" ELSE m

\* "any(ch.isspace() for ch in api_key)"
has_whitespace(api_key) == \E i \in DOMAIN api_key : api_key[i] \in Whitespace

create_error_response(error, status_code) ==
    [success |-> FALSE, error |-> error, status |-> status_code]
create_success_response(data) == [success |-> TRUE, data |-> data, status |-> 200]

\* set_translation_service_config: the response and the session after it.
\* ".strip()" on null raises AttributeError, which the handler's except
\* clause answers with status 500.
set_translation_service_config(avail, sess, name, body) ==
    IF ~body.is_json
    THEN [response |-> create_error_response("Request must be JSON", 400), session |-> sess]
    ELSE IF DOMAIN body.data = {}
    THEN [response |-> create_error_response("Invalid request data", 400), session |-> sess]
    ELSE IF Get(body.data, "api_key", <<>>) = NoneStr \/ Get(body.data, "model", "") = None
    THEN [response |-> create_error_response(
                           "Server error: 'NoneType' object has no attribute 'strip'", 500),
          session |-> sess]
    ELSE LET api_key == strip(Get(body.data, "api_key", <<>>))
             model   == strip_model(Get(body.data, "model", ""))
         IN  IF api_key = <<>>
             THEN [response |-> create_error_response("API key cannot be empty", 400),
                   session |-> sess]
             ELSE IF Len(api_key) < 10
             THEN [response |-> create_error_response("API key is too short", 400),
                   session |-> sess]
             ELSE IF api_key = Placeholder \/ has_whitespace(api_key)
             THEN [response |-> create_error_response(
                       "Invalid API key format (no spaces or placeholders allowed)", 400),
                   session |-> sess]
             ELSE IF name \notin get_service_names(avail)
             THEN [response |-> create_error_response("Invalid service name: " \o name, 400),
                   session |-> sess]
             ELSE IF model # "" /\ model \notin get_available_models_for_service(name)
             THEN [response |-> create_error_response("Invalid model: " \o model, 400),
                   session |-> sess]
             ELSE [response |-> create_success_response(
                       [message |-> "Configuration updated for " \o name,
                        service_name |-> name, has_api_key |-> TRUE, model |-> model]),
                   session |-> set_user_config(sess, name, api_key, model)]

\* clear_translation_service_config
clear_translation_service_config(avail, sess, name) ==
    IF name \notin get_service_names(avail)
    THEN [response |-> create_error_response("Invalid service name: " \o name, 400),
          session |-> sess]
    ELSE [response |-> create_success_response(
              [message |-> "Configuration cleared for " \o name, service_name |-> name]),
          session |-> clear_user_config(sess, name)]

InitRoute ==
    /\ AVAILABLE_SERVICES = BaselineServices(EnvKey, <<>>, <<>>)
    /\ session = EmptyDict
    /\ config_ops = 0
    /\ pc = "route"
    /\ text = <<>>
    /\ prompt = <<>>
    /\ service_name = ""
    /\ chunks = <<>>
    /\ translated_chunks = <<>>
    /\ attempt = 0
    /\ calls = <<>>
    /\ sleeps = <<>>
    /\ result = None
    /\ split_out = None
    /\ requested = None
    /\ sessions = EmptyDict
    /\ processing_history = <<>>
    /\ processor_log = <<>>
    /\ checked_config = None

\* POST /translation-services/<name>/config with the given body
PostConfig(name, body) ==
    /\ pc \in {"route", "post_config", "delete_config"}
    /\ config_ops < MaxRouteCalls
    /\ config_ops' = config_ops + 1
    /\ pc' = "post_config"
    /\ service_name' = name
    /\ LET r == set_translation_service_config(AVAILABLE_SERVICES, session, name, body)
       IN  /\ result' = r.response
           /\ session' = r.session
    /\ UNCHANGED <<AVAILABLE_SERVICES, text, prompt, chunks, translated_chunks, attempt,
                   calls, sleeps, split_out, requested, sessions,
                   processing_history, processor_log, checked_config>>

\* DELETE /translation-services/<name>/config
DeleteConfig(name) ==
    /\ pc \in {"route", "post_config", "delete_config"}
    /\ config_ops < MaxRouteCalls
    /\ config_ops' = config_ops + 1
    /\ pc' = "delete_config"
    /\ service_name' = name
    /\ LET r == clear_translation_service_config(AVAILABLE_SERVICES, session, name)
       IN  /\ result' = r.response
           /\ session' = r.session
    /\ UNCHANGED <<AVAILABLE_SERVICES, text, prompt, chunks, translated_chunks, attempt,
                   calls, sleeps, split_out, requested, sessions,
                   processing_history, processor_log, checked_config>>

NextRoute ==
    \/ \E name \in ConfigNames, body \in RouteBodies : PostConfig(name, body)
    \/ \E name \in ConfigNames : DeleteConfig(name)

SpecRoute == InitRoute /\ [][NextRoute]_vars

(***************************************************************************)
(* Vocabulary of the properties.                                           *)
(***************************************************************************)
Done        == pc = "done"
SplitDone   == pc = "split_done"
Chunked     == Len(chunks) >= 2                       \* the request took the chunked path
DirectPath  == ~Chunked /\ calls # <<>>               \* _translate_short_text reached the transport
LastCall    == calls[Len(calls)]
CallFailed(c) == c.raised # "" \/ c.value.error # None
TimeoutErrors ==
    {ERR_TIMEOUT, "Microsoft Translator API request timed out"}
    \cup {"Translation timeout on part " \o ToString(i)
              \o ". Please try again later or reduce text length." : i \in 1..MaxChunks}

\* C1: every result translate_text returns is fully successful (error None,
\* translated_text non-empty) or fully failed (error set, translated_text
\* empty), and a chunked success is built from all of its chunks.
AllOrNothingResult ==
    Done =>
        /\ \/ result.error = None /\ result.translated_text # <<>>
           \/ result.error # None /\ result.translated_text = <<>>
        /\ (Chunked /\ result.error = None) => Len(translated_chunks) = Len(chunks)

\* C2: with a transport that times out on every call and a configuration that
\* does not change, a direct-path request makes exactly max_retries transport
\* attempts and returns a failed result with a timeout error.
TimeoutsExhaustRetries ==
    (Done /\ DirectPath /\ Len(text) <= max_chunk_size /\ config_ops = 0
       /\ \A k \in DOMAIN calls : calls[k].outcome.kind = "Timeout") =>
        /\ Len(calls) = max_retries
        /\ result.error \in TimeoutErrors
        /\ result.translated_text = <<>>

\* C3: on the chunked path a chunk whose call timed out has had max_retries
\* attempts, with retry_delay between them, when the request fails with a timeout.
ChunkTimeoutRetried ==
    (Done /\ Chunked /\ calls # <<>> /\ LastCall.outcome.kind = "Timeout") =>
        /\ Cardinality({k \in DOMAIN calls : calls[k].part = LastCall.part}) = max_retries
        /\ Len(sleeps) = max_retries - 1
        /\ \A k \in DOMAIN sleeps : sleeps[k].seconds = retry_delay

\* C4: a transport timeout or network exception reaches the dispatcher as the
\* exception it is, for every provider: a call that met one is recorded as
\* raised, never as an ordinary error result of the adapter.
AdaptersPropagateTransportErrors ==
    \A k \in DOMAIN calls :
        calls[k].outcome.kind \in {"Timeout", "ConnectionError"} =>
            calls[k].raised = calls[k].outcome.kind

\* C5 as stated: a direct-path request that fails with a non-timeout failure
\* has made at most one transport call.
NonTimeoutFailureAfterOneCall ==
    (Done /\ DirectPath /\ result.error # None /\ result.error \notin TimeoutErrors) =>
        Len(calls) <= 1

\* C5 as amended: no transport call follows a call that failed otherwise than
\* by a timeout; a direct-path request that fails with a non-timeout failure
\* has made at most max_retries calls, of which all but the last timed out.
NoCallAfterNonTimeoutFailure ==
    /\ \A k \in 1..(Len(calls) - 1) :
           CallFailed(calls[k]) => calls[k].outcome.kind = "Timeout"
    /\ (Done /\ DirectPath /\ result.error # None /\ result.error \notin TimeoutErrors) =>
           /\ Len(calls) <= max_retries
           /\ \A k \in 1..(Len(calls) - 1) : calls[k].outcome.kind = "Timeout"

\* a direct-path request whose second attempt failed with a network error
\* after the first had timed out
WitnessFailureAfterTimeout ==
    /\ Done /\ DirectPath
    /\ Len(calls) = 2
    /\ calls[1].outcome.kind = "Timeout"
    /\ calls[2].outcome.kind = "ConnectionError"
    /\ result.error = "Translation failed: ConnectionError"

\* C6: on the chunked path the first chunk whose adapter call fails ends the
\* request: no call is made for a later chunk, the earlier translations are
\* not returned, and the result has an error and an empty translated_text.
FirstChunkFailureAborts ==
    Chunked =>
        /\ \A k \in DOMAIN calls :
               CallFailed(calls[k]) =>
                   /\ k = Len(calls)
                   /\ Done
                   /\ result.error # None
                   /\ result.translated_text = <<>>
        /\ \A k \in DOMAIN calls : calls[k].part <= Len(translated_chunks) + 1
        /\ (Done /\ result.error # None) => result.translated_text = <<>>

\* chunk 2 of 3 failed with a network error after chunk 1 was translated
WitnessSecondChunkFailed ==
    /\ Done /\ Len(chunks) = 3
    /\ Len(calls) = 2
    /\ ~CallFailed(calls[1])
    /\ calls[2].outcome.kind = "ConnectionError"
    /\ Len(translated_chunks) = 1
    /\ result.error # None
    /\ result.translated_text = <<>>

\* C7: a successful chunked result is the translations of the chunks of
\* _split_text, in chunk order, joined by a blank line.
ChunkOrderPreserved ==
    (Done /\ Chunked /\ result.error = None) =>
        /\ Len(calls) = Len(split_text(text))
        /\ \A i \in DOMAIN calls :
               /\ calls[i].part = i
               /\ calls[i].text = split_text(text)[i]
        /\ result.translated_text =
               join(<<"\n", "\n">>, [i \in DOMAIN calls |-> calls[i].value.translated_text])

\* three chunks echoed by the provider come back in their order
WitnessThreeChunksJoined ==
    /\ Done /\ Len(chunks) = 3 /\ result.error = None
    /\ \A i \in DOMAIN calls : calls[i].outcome.kind = "200_echo"
    /\ result.translated_text =
           <<"a", ".", "\n", "\n", "b", ".", "\n", "\n", "c", ".">>

\* C8: _split_text returns at most 10 chunks for every text.
AtMostTenChunks == SplitDone => Len(split_out) <= MaxChunks

\* C9: every chunk of a text longer than max_chunk_size is at most
\* max_chunk_size long.
ChunksBounded ==
    (SplitDone /\ Len(text) > max_chunk_size) =>
        \A i \in DOMAIN split_out : Len(split_out[i]) <= max_chunk_size

\* C10: a text of at most max_chunk_size characters is returned as the one
\* chunk [text], unchanged.
ShortTextOneChunk ==
    (SplitDone /\ Len(text) <= max_chunk_size) => split_out = <<text>>

\* a text of exactly max_chunk_size characters with blanks at both ends and a
\* sentence delimiter inside came back whole
WitnessBoundaryTextWhole ==
    /\ SplitDone
    /\ text = <<" ", ".", " ">>
    /\ Len(text) = max_chunk_size
    /\ split_out = <<text>>

\* the k-th window of max_chunk_size characters of a text, trimmed
TrimmedWindow(s, k) ==
    LET first == (k - 1) * max_chunk_size + 1
        last  == IF k * max_chunk_size < Len(s) THEN k * max_chunk_size ELSE Len(s)
    IN  strip(SubSeq(s, first, last))

WindowCount(s) == (Len(s) + max_chunk_size - 1) \div max_chunk_size
NotEmpty(x) == x # <<>>

\* C11: when the sentence tier yields more than 10 chunks, _split_text returns
\* the consecutive windows of max_chunk_size characters of the raw text, in
\* order, each trimmed, without the windows that are empty after trimming; the
\* chunk count is at most ceil(len(text) / max_chunk_size).
WindowFallback ==
    (SplitDone /\ Len(text) > max_chunk_size /\ Len(sentence_chunks(text)) > MaxChunks) =>
        /\ split_out =
               SelectSeq([k \in 1..WindowCount(text) |-> TrimmedWindow(text, k)], NotEmpty)
        /\ Len(split_out) <= WindowCount(text)

\* 12 sentence chunks, 12 windows of which every third is blank and dropped
WitnessBlankWindowsDropped ==
    /\ SplitDone
    /\ text = Repeat(BlankWindowUnit, 4)
    /\ Len(sentence_chunks(text)) = 12
    /\ WindowCount(text) = 12
    /\ Len(split_out) = 8
    /\ \A i \in DOMAIN split_out : split_out[i] \in {<<"a", ".", "a">>, <<".", "a", ".">>}

\* a text or prompt that is missing, empty, or made of whitespace only
Blank(s) == s = NoneStr \/ \A i \in DOMAIN s : s[i] \in Whitespace

ValidationErrors == {"Input text cannot be empty", "Translation prompt cannot be empty"}

\* C12: a request whose text or prompt is empty, blank or missing ends at once
\* with a validation error; the transport is never called, the service name is
\* never resolved or checked for availability, and no path or adapter is entered.
BlankInputRejected ==
    (pc # "idle" /\ (Blank(text) \/ Blank(prompt))) =>
        /\ Done
        /\ result.error \in ValidationErrors
        /\ result.translated_text = <<>>
        /\ result.service_used = ""
        /\ service_name = ""
        /\ calls = <<>>
        /\ sleeps = <<>>
        /\ chunks = <<>>
        /\ attempt = 0

\* a missing prompt is rejected although the default provider is available
WitnessMissingPromptRejected ==
    /\ Done
    /\ text = <<"a">>
    /\ prompt = NoneStr
    /\ is_service_available(AVAILABLE_SERVICES, session, DEFAULT_TRANSLATION_SERVICE)
    /\ result.error = "Translation prompt cannot be empty"
    /\ calls = <<>>

\* the request has just left translate_text's entry with inputs that pass validation
RequestAccepted == pc = "idle" /\ pc' # "idle" /\ ~Blank(text') /\ ~Blank(prompt')

\* the configuration the resolver returns for a name carries enabled = True
ResolvedEnabled(name) ==
    LET config == get_service_config(AVAILABLE_SERVICES, session, name)
    IN  "enabled" \in DOMAIN config /\ config.enabled

UnavailableError(name) ==
    "Translation service " \o name \o " is not available. Please check API key configuration."
UnsupportedError(name) == "Unsupported translation service: " \o name

EffectiveKey == Get(get_service_config(AVAILABLE_SERVICES, session, service_name),
                    "api_key", <<>>)
UnusableKeys == {<<>>, Placeholder}

\* the request calls an adapter in this step
AdapterStep ==
    pc \in {"short", "long"} /\ config_ops' = config_ops /\ service_name \in ProviderNames

Overrides      == Get(session, "user_translation_configs", EmptyDict)
HasOverride(p) == p \in DOMAIN Overrides
Override(p)    == Overrides[p]
Baseline(p)    == IF p \in DOMAIN AVAILABLE_SERVICES THEN AVAILABLE_SERVICES[p] ELSE EmptyDict
Resolved       == pc = "get_service_config"      \* result is what get_service_config returned
\* what get_service_config(p) would return after this step
ResolveNext(p) == get_service_config(AVAILABLE_SERVICES, session', p)

\* C15: for a catalog provider, get_service_config returns the baseline
\* credential and model while no override is stored; right after
\* set_user_config(p, c, m) with non-empty c it returns credential c and model m
\* (the baseline model when m is not given); right after clear_user_config(p)
\* it returns the baseline configuration; and whenever a stored override has a
\* non-empty credential, that credential is the one returned.
OverridePreferred ==
    /\ [](\A p \in ProviderNames :
            (Resolved /\ service_name = p /\ ~HasOverride(p)) =>
                /\ result.api_key = Baseline(p).api_key
                /\ result.model = Baseline(p).model)
    /\ [](\A p \in ProviderNames :
            (Resolved /\ service_name = p /\ HasOverride(p) /\ Override(p).api_key # <<>>) =>
                result.api_key = Override(p).api_key)
    /\ [][\A p \in ProviderNames, c \in ConfigKeys \ {<<>>}, m \in ConfigModels :
            SetUserConfigCall(p, c, m) =>
                /\ ResolveNext(p).api_key = c
                /\ ResolveNext(p).model = IF m = None THEN Baseline(p).model ELSE m]_vars
    /\ [][\A p \in ProviderNames :
            ClearUserConfigCall(p) => ResolveNext(p) = Baseline(p)]_vars

\* openai has a baseline key, an override with the user's key and a model is
\* stored, and get_service_config returned the override's key and model
WitnessOverrideResolved ==
    /\ Resolved
    /\ service_name = "openai"
    /\ Baseline("openai").api_key = EnvKey
    /\ HasOverride("openai")
    /\ Override("openai").api_key = UserKey
    /\ result.api_key = UserKey
    /\ result.model = "deepseek-coder"
    /\ result.api_url = Baseline("openai").api_url

\* a credential that is empty once whitespace is trimmed
BlankKey(c) == \A i \in DOMAIN c : c[i] \in Whitespace

\* C16: set_user_config(p, c) always stores a record for p holding c; the
\* record's enabled flag is false when c is empty after trimming and true
\* otherwise.
BlankOverrideStoredDisabled ==
    /\ [][\A p \in ConfigNames, c \in ConfigKeys, m \in ConfigModels :
            SetUserConfigCall(p, c, m) =>
                /\ p \in DOMAIN session'.user_translation_configs
                /\ session'.user_translation_configs[p].api_key = c
                /\ session'.user_translation_configs[p].enabled = ~BlankKey(c)]_vars
    /\ [](\A p \in DOMAIN Overrides : Override(p).enabled = ~BlankKey(Override(p).api_key))

\* set_user_config was given a whitespace-only credential
WitnessBlankOverrideStored ==
    /\ pc = "set_user_config"
    /\ HasOverride(service_name)
    /\ Override(service_name).api_key = <<" ">>
    /\ Override(service_name).enabled = FALSE

\* C17: get_service_config returns the baseline configuration unmodified,
\* enabled flag included, when no override is stored for the name or the stored
\* override's credential is empty; when the credential is non-empty the
\* returned enabled flag is the override record's.
BaselineUnlessOverrideKey ==
    \A p \in ConfigNames :
        (Resolved /\ service_name = p) =>
            IF HasOverride(p) /\ Override(p).api_key # <<>>
            THEN result.enabled = Override(p).enabled
            ELSE result = Baseline(p)

\* an override with an empty credential (enabled false) is stored for a provider
\* whose baseline is enabled, and get_service_config returned the baseline
WitnessEmptyOverrideIgnored ==
    /\ Resolved
    /\ service_name \in ProviderNames
    /\ HasOverride(service_name)
    /\ Override(service_name).api_key = <<>>
    /\ Override(service_name).enabled = FALSE
    /\ result = Baseline(service_name)
    /\ result.enabled = TRUE

\* C18: for a name outside the catalog with no override stored,
\* get_service_config returns an empty configuration and is_service_available
\* returns false (neither fails).
UnknownNameResolvesEmpty ==
    \A p \in ConfigNames \ ProviderNames :
        (service_name = p /\ ~HasOverride(p)) =>
            /\ Resolved => result = EmptyDict
            /\ pc = "is_service_available" => result = FALSE

\* is_service_available('ghost') returned while no override was stored for it
WitnessUnknownNameNotAvailable ==
    /\ pc = "is_service_available"
    /\ service_name = "ghost"
    /\ ~HasOverride("ghost")
    /\ Overrides # EmptyDict
    /\ result = FALSE

\* C19: on the chunked path the k-th transport call of the request is the call
\* for chunk k, and it is made only when the calls for chunks 1..k-1 have all
\* returned a translation, which is then already collected; calls are made one
\* at a time, each returning before the next is issued.
ChunksStrictlySequential ==
    Chunked =>
        /\ Len(calls) <= Len(chunks)
        /\ Len(translated_chunks) \in {Len(calls) - 1, Len(calls)}
        /\ \A k \in DOMAIN calls :
              /\ calls[k].part = k
              /\ calls[k].text = chunks[k]
              /\ k < Len(calls) =>
                    /\ ~CallFailed(calls[k])
                    /\ translated_chunks[k] = calls[k].value.translated_text

\* chunks 1 and 2 were translated, the call for chunk 3 failed
WitnessThirdChunkAfterTwo ==
    /\ Done
    /\ Len(chunks) = 3
    /\ Len(calls) = 3
    /\ Len(translated_chunks) = 2
    /\ CallFailed(calls[3])
    /\ calls[3].text = chunks[3]
    /\ chunks[1] # chunks[3]

\* the condition under which the whole text goes out in one piece
WholeText == Len(text) <= max_chunk_size \/ Len(split_text(text)) = 1

\* C20: a request is on the direct path exactly when the text is at most
\* max_chunk_size characters long or the chunker returns exactly one chunk; its
\* transport calls then carry the whole text and the caller's prompt with the
\* short timeout (60 s).  Otherwise it is on the chunked path and every
\* transport call carries one chunk with the long timeout (180 s).
DirectPathIffWholeText ==
    /\ pc = "short" => WholeText
    /\ pc = "long" => ~WholeText
    /\ \A k \in DOMAIN calls :
          IF WholeText
          THEN /\ calls[k].timeout = timeout_short
               /\ calls[k].part = 0
               /\ calls[k].text = text
               /\ calls[k].prompt = prompt
          ELSE /\ calls[k].timeout = timeout_long
               /\ calls[k].part \in 1..Len(chunks)
               /\ calls[k].text = chunks[calls[k].part]

\* a text longer than max_chunk_size that the chunker leaves in one chunk went
\* out whole with the short timeout
WitnessLongTextOneChunkDirect ==
    /\ Done
    /\ Len(text) > max_chunk_size
    /\ Len(chunks) = 1
    /\ calls # <<>>
    /\ calls[1].timeout = timeout_short
    /\ calls[1].text = text
    /\ result.error = None

\* the request has passed the input validation of translate_text
Validated == pc # "idle" /\ ~Blank(text) /\ ~Blank(prompt)

\* C21: a request that names no provider (None or '') is resolved to the
\* default provider deepseek once validation has passed: that is the name
\* checked and dispatched, every transport call goes to it, and the result's
\* service_used is deepseek.
DefaultProviderUsed ==
    (Validated /\ requested = "") =>
        /\ service_name = "deepseek"
        /\ \A k \in DOMAIN calls : calls[k].service = "deepseek"
        /\ Done => result.service_used = "deepseek"

\* a request without a provider name was translated by deepseek
WitnessDefaultProviderTranslated ==
    /\ Done
    /\ requested = ""
    /\ result.error = None
    /\ result.service_used = "deepseek"
    /\ calls # <<>>
    /\ LastCall.service = "deepseek"

\* C22: the result of every request that passed validation names the provider
\* that was used in service_used and carries the caller's own prompt in
\* prompt_used, whether it succeeded or failed, on the direct and on the
\* chunked path.
ResultEchoesServiceAndPrompt ==
    (Done /\ Validated) =>
        /\ result.service_used = service_name
        /\ result.prompt_used = prompt

(***************************************************************************)
(* Properties of the language hinter (SpecHint).                           *)
(***************************************************************************)
HintDone == pc = "hint_done"

\* positions in the keyword table of the keywords that occur in the prompt
\* once it is lower-cased
KeywordsFound(p) ==
    {k \in DOMAIN language_mappings : Contains(language_mappings[k][1], lower(p))}

Least(S) == CHOOSE k \in S : \A j \in S : k <= j

\* C23: the hinter returns the code of the keyword that comes first in the
\* keyword table among those occurring in the lower-cased prompt, wherever
\* they stand in the prompt, and zh when none occurs.
HintFirstKeywordInTableOrder ==
    HintDone =>
        result = IF KeywordsFound(prompt) = {} THEN "zh"
                 ELSE language_mappings[Least(KeywordsFound(prompt))][2]

\* "Japanese ENGLISH": english stands before japanese in the table, after it in
\* the prompt, and is written in capitals
WitnessTableOrderBeatsPosition ==
    /\ HintDone
    /\ prompt = <<"J", "a", "p", "a", "n", "e", "s", "e", " ", "E", "N", "G", "L", "I", "S", "H">>
    /\ KeywordsFound(prompt) = {5, 8}
    /\ result = "en"

\* C24: no call changes the baseline: whatever set_user_config,
\* clear_user_config, get_service_config, is_service_available,
\* get_all_services, get_enabled_services, get_config_summary or translate_text
\* step is taken, AVAILABLE_SERVICES is afterwards what it was before, hence
\* what it was at startup.
BaselineImmutable == [][AVAILABLE_SERVICES' = AVAILABLE_SERVICES]_vars

\* get_all_services returned openai with the user's key while the baseline
\* entry still holds the key from the environment
WitnessOverrideListedBaselineKept ==
    /\ pc = "get_all_services"
    /\ result["openai"].is_user_configured
    /\ result["openai"].api_key = UserKey
    /\ AVAILABLE_SERVICES["openai"].api_key = EnvKey
    /\ "is_user_configured" \notin DOMAIN AVAILABLE_SERVICES["openai"]

(***************************************************************************)
(* Properties of the per-client overrides (SpecSessions).                  *)
(***************************************************************************)
\* what get_service_config, is_service_available and get_all_services return
\* in a request whose session is sess
Reads(avail, sess) ==
    [resolve      |-> [p \in ConfigNames |-> get_service_config(avail, sess, p)],
     is_enabled   |-> [p \in ConfigNames |-> is_service_available(avail, sess, p)],
     all_services |-> get_all_services(avail, sess)]

\* a TranslationConfig call made in a request of client sid
CallBy(sid) ==
    \/ \E name \in ConfigNames, api_key \in SessionKeys : SessionSetUserConfig(sid, name, api_key)
    \/ \E name \in ConfigNames : SessionClearUserConfig(sid, name)
    \/ \E name \in ConfigNames : SessionGetServiceConfig(sid, name)
    \/ SessionGetAllServices(sid)

\* C25: a set_user_config or clear_user_config call (or any other
\* TranslationConfig call) made in one client's session leaves what
\* get_service_config, is_service_available and get_all_services return in
\* every other client's session as it was.
OverridesScopedPerSession ==
    [][\A a \in SessionIds : \A b \in SessionIds \ {a} :
          CallBy(a) => Reads(AVAILABLE_SERVICES', sessions'[b])
                         = Reads(AVAILABLE_SERVICES, sessions[b])]_vars

\* client A stored a key for openai and resolves to it, client B still
\* resolves openai to the environment's key
WitnessOverrideSeenByOwnerOnly ==
    /\ pc = "get_service_config"
    /\ service_name = "openai"
    /\ result.api_key = UserKey
    /\ get_service_config(AVAILABLE_SERVICES, sessions["A"], "openai").api_key = UserKey
    /\ get_service_config(AVAILABLE_SERVICES, sessions["B"], "openai").api_key = EnvKey
    /\ sessions["B"] = EmptyDict

\* C26: whatever set_user_config and clear_user_config calls were made, the
\* summary returned by get_config_summary has 0 <= enabled_services <=
\* total_services, and every entry get_enabled_services returns has enabled = True.
SummaryCountsConsistent ==
    /\ pc = "get_config_summary" =>
          /\ 0 <= result.enabled_services
          /\ result.enabled_services <= result.total_services
    /\ pc = "get_enabled_services" =>
          \A name \in DOMAIN result : result[name].enabled = TRUE

\* C27: a request moves idle -> (done | short | long), short -> (short | done),
\* long -> (long | done) and stops at done; it enters a path only with valid
\* inputs and an available service, and only then are transport calls made;
\* a chunked request that succeeded has one successful call per chunk; nothing
\* is posted once the result is decided; and, every transport call returning
\* or raising, a request that entered a path reaches done.
RequestFollowsStateMachine ==
    /\ [][/\ pc = "idle" => pc' \in {"idle", "short", "long", "done"}
          /\ pc = "short" => pc' \in {"short", "done"}
          /\ pc = "long" => pc' \in {"long", "done"}
          /\ pc = "done" => pc' = "done" /\ calls' = calls /\ result' = result
          /\ (pc = "idle" /\ pc' \in {"short", "long"}) =>
                /\ ~Blank(text') /\ ~Blank(prompt')
                /\ ResolvedEnabled(service_name')
          /\ calls' # calls => pc \in {"short", "long"}]_vars
    /\ []((pc = "idle" \/ ~Validated) => calls = <<>>)
    /\ []((Done /\ Chunked /\ result.error = None) =>
             /\ Len(calls) = Len(chunks)
             /\ Len(translated_chunks) = Len(chunks)
             /\ \A k \in DOMAIN calls : ~CallFailed(calls[k]))
    /\ (pc \in {"short", "long"}) ~> Done

\* three attempts timed out: the request went idle -> short -> short -> short
\* -> done and ended as failed
WitnessRetriesThenFailed ==
    /\ Done
    /\ ~Chunked
    /\ Len(calls) = max_retries
    /\ attempt = max_retries - 1
    /\ result.error = ERR_TIMEOUT

\* C28: the history of the text processor has one entry per successful
\* process_text / process_text_with_regex call since the last clear_history:
\* a successful call appends exactly one entry, a call that input validation
\* rejects (text None, empty or blank) appends none, an unsuccessful call
\* appends none, and clear_history leaves the history empty.
ProcessingCalls == {"process_text", "process_text_with_regex"}
LastClear ==
    LET cleared == {i \in DOMAIN processor_log : processor_log[i].op = "clear_history"}
    IN  IF cleared = {} THEN 0 ELSE CHOOSE i \in cleared : \A j \in cleared : j <= i
SuccessfulSinceClear ==
    {i \in (LastClear + 1)..Len(processor_log) :
        /\ processor_log[i].op \in ProcessingCalls
        /\ processor_log[i].error = None}
LastProcessorCall == processor_log'[Len(processor_log')]
HistoryCountsSuccessfulCalls ==
    /\ [](Len(processing_history) = Cardinality(SuccessfulSinceClear))
    /\ [][processor_log' # processor_log =>
            /\ (LastProcessorCall.op \in ProcessingCalls /\ LastProcessorCall.error = None) =>
                   /\ Len(processing_history') = Len(processing_history) + 1
                   /\ SubSeq(processing_history', 1, Len(processing_history))
                          = processing_history
            /\ (LastProcessorCall.op \in ProcessingCalls /\ LastProcessorCall.error # None) =>
                   processing_history' = processing_history
            /\ (LastProcessorCall.op \in ProcessingCalls /\ Blank(LastProcessorCall.text)) =>
                   /\ LastProcessorCall.error # None
                   /\ processing_history' = processing_history
            /\ LastProcessorCall.op = "clear_history" => processing_history' = <<>>
            /\ LastProcessorCall.op = "get_processing_history" =>
                   processing_history' = processing_history]_vars

WitnessRejectedThenTwoRecorded ==
    /\ pc = "processor"
    /\ Len(processor_log) = 3
    /\ processor_log[1].op = "process_text"
    /\ processor_log[1].error = ERR_TEXT_EMPTY
    /\ processor_log[2].op = "process_text" /\ processor_log[2].error = None
    /\ processor_log[3].op = "process_text_with_regex" /\ processor_log[3].error = None
    /\ Len(processing_history) = 2

\* C29: on the direct path every attempt but the last one timed out and was
\* followed by one delay of 2 seconds before the next attempt; the last
\* attempt (a returned result, or the third timeout) is followed by none.  So a
\* request whose k-th attempt returns (1 <= k <= 3) ends with that attempt's
\* result after exactly k transport calls and k - 1 delays.
DelaysAfterCalls(n) == [j \in 1..n |-> [seconds |-> 2, after_call |-> j]]
RetryDelaysBetweenAttempts ==
    (pc \in {"short", "done"} /\ ~Chunked /\ calls # <<>>) =>
        /\ Len(calls) <= 3
        /\ \A j \in 1..(Len(calls) - 1) :
               calls[j].outcome.kind = "Timeout" /\ calls[j].raised = "Timeout"
        /\ pc = "short" =>
               /\ Len(calls) < 3
               /\ LastCall.raised = "Timeout"
               /\ sleeps = DelaysAfterCalls(Len(calls))
        /\ Done =>
               /\ sleeps = DelaysAfterCalls(Len(calls) - 1)
               /\ LastCall.raised = "" => result = LastCall.value
               /\ LastCall.raised = "Timeout" => Len(calls) = 3 /\ result.error = ERR_TIMEOUT

WitnessThirdAttemptReturned ==
    /\ Done /\ ~Chunked
    /\ Len(calls) = 3
    /\ calls[1].raised = "Timeout" /\ calls[2].raised = "Timeout"
    /\ LastCall.raised = ""
    /\ result = LastCall.value
    /\ result.error = None
    /\ Len(sleeps) = 2

\* C30: on the chunked path the k-th transport call of a request carries the
\* k-th chunk, and its instruction is the caller's instruction, a blank line
\* and "(Part k/n)", n being the number of chunks of the request.
Numeral == <<"1", "2", "3", "4", "5", "6", "7", "8", "9">>
PartSuffix(i, n) ==
    <<"\n", "\n", "(", "P", "a", "r", "t", " ", Numeral[i], "/", Numeral[n], ")">>
ChunkInstructionNumbered ==
    (Chunked /\ Len(chunks) <= 9) =>
        \A k \in DOMAIN calls :
            /\ k <= Len(chunks)
            /\ calls[k].part = k
            /\ calls[k].text = chunks[k]
            /\ calls[k].prompt = prompt \o PartSuffix(k, Len(chunks))

WitnessPartThreeOfThree ==
    /\ Done /\ Len(chunks) = 3 /\ Len(calls) = 3
    /\ calls[3].text = chunks[3]
    /\ calls[3].prompt =
           prompt \o <<"\n", "\n", "(", "P", "a", "r", "t", " ", "3", "/", "3", ")">>
    /\ calls[1].prompt =
           prompt \o <<"\n", "\n", "(", "P", "a", "r", "t", " ", "1", "/", "3", ")">>

\* C31: a successful result of the chunked path carries chunks_translated, the
\* number of chunks the chunker returned for the text (2 or more), and that is
\* the number of adapter calls of the request that succeeded; a result of the
\* direct path carries no chunks_translated.
SucceededCalls == {k \in DOMAIN calls : ~CallFailed(calls[k])}
ChunkCountMatchesCalls ==
    /\ (Done /\ Validated /\ ~WholeText /\ result.error = None) =>
           /\ "chunks_translated" \in DOMAIN result
           /\ result.chunks_translated = Len(split_text(text))
           /\ result.chunks_translated >= 2
           /\ result.chunks_translated = Cardinality(SucceededCalls)
    /\ (Done /\ (~Validated \/ WholeText)) => "chunks_translated" \notin DOMAIN result

WitnessThreeChunksCounted ==
    /\ Done /\ result.error = None
    /\ "chunks_translated" \in DOMAIN result
    /\ result.chunks_translated = 3
    /\ Cardinality(SucceededCalls) = 3

\* A sentence ends with the last character of a delimiter run, or with the
\* text; a text is cut into chunks after some of its sentence ends.
SentenceEnds(s) ==
    {i \in 1..Len(s) : i = Len(s) \/ (s[i] \in Punct /\ s[i + 1] \notin Punct)}
Nth(S, k) == CHOOSE b \in S : Cardinality({x \in S : x < b}) = k - 1
CutSets(s) == {D \cup {Len(s)} : D \in SUBSET (SentenceEnds(s) \ {Len(s)})}
SpanStart(C, k) == IF k = 1 THEN 1 ELSE Nth(C, k - 1) + 1
SpanEnd(C, k) == Nth(C, k)
\* the buffer is cut exactly where the next sentence no longer fits: a span of
\* several sentences is at most max_chunk_size long, and a span followed by
\* another one is, with the first sentence of that one, longer than that
GreedyCuts(s, C) ==
    \A k \in 1..Cardinality(C) :
        LET a == SpanStart(C, k)
            b == SpanEnd(C, k)
        IN  /\ (\E e \in SentenceEnds(s) : a <= e /\ e < b) => b - a + 1 <= max_chunk_size
            /\ k < Cardinality(C) =>
                   \E e \in SentenceEnds(s) :
                       /\ e > b
                       /\ \A x \in SentenceEnds(s) : x > b => e <= x
                       /\ e - a + 1 > max_chunk_size
\* the spans, trimmed; a blank last span gives no chunk
ChunksOfCuts(s, C) ==
    LET n     == Cardinality(C)
        spans == [k \in 1..n |-> strip(SubSeq(s, SpanStart(C, k), SpanEnd(C, k)))]
    IN  IF spans[n] = <<>> THEN SubSeq(spans, 1, n - 1) ELSE spans
\* what two spans that follow each other would have given as one chunk
MergedChunk(s, C, k) == strip(SubSeq(s, SpanStart(C, k), SpanEnd(C, k + 1)))
SentenceTier ==
    SplitDone /\ Len(text) > max_chunk_size /\ Len(sentence_chunks(text)) <= MaxChunks

\* C32 as stated: the chunks of the sentence tier are runs of whole consecutive
\* sentences, each delimiter run with the sentence before it, cut exactly where
\* the next sentence would make the buffer longer than max_chunk_size, and no
\* two consecutive chunks would fit into max_chunk_size as one chunk.
SentenceChunksNeverMergeable ==
    SentenceTier =>
        \E C \in CutSets(text) :
            /\ GreedyCuts(text, C)
            /\ split_out = ChunksOfCuts(text, C)
            /\ \A k \in 1..(Len(split_out) - 1) :
                   Len(MergedChunk(text, C, k)) > max_chunk_size

\* C32, amended: the chunks of the sentence tier are runs of whole consecutive
\* sentences, each delimiter run with the sentence before it, cut exactly where
\* the next sentence would make the untrimmed buffer longer than
\* max_chunk_size; the lengths compared are those before trimming.
SentenceChunksGreedy ==
    SentenceTier =>
        \E C \in CutSets(text) :
            /\ GreedyCuts(text, C)
            /\ split_out = ChunksOfCuts(text, C)

WitnessBufferFlushedWhenFull ==
    /\ SentenceTier
    /\ text = <<".", "a", ".", "a", "a">>
    /\ split_out = << <<".", "a", ".">>, <<"a", "a">> >>

\* C33: a chat-completion adapter (deepseek, openai) that receives a response
\* with a status other than 200 returns a result, never raises: the localized
\* key-invalid hint when the message of the response matches the adapter's
\* authentication pattern, otherwise an error that carries the message (or
\* status and body when the body is no JSON).  The result has an empty
\* translated_text, ends the request and is the result of the request: the
\* call is not retried and no call follows it.
ChatProviders == {"deepseek", "openai"}
ErrorResponses ==
    {"401_Authentication_Fails", "401_invalid_api_key", "500_other", "502_not_json"}
AuthenticationPattern(service, kind) ==
    \/ kind = "401_Authentication_Fails"
    \/ service = "openai" /\ kind = "401_invalid_api_key"
Label(service) == IF service = "deepseek" THEN "DeepSeek" ELSE "OpenAI"
AuthenticationError(service) == Label(service) \o ": API key invalid or expired"
ProviderError(service, kind) ==
    Label(service) \o " API error: "
        \o (IF kind = "502_not_json" THEN "status - text" ELSE kind)
ErrorResponseClassified ==
    \A k \in DOMAIN calls :
        (calls[k].service \in ChatProviders /\ calls[k].outcome.kind \in ErrorResponses) =>
            /\ calls[k].raised = ""
            /\ calls[k].value.translated_text = <<>>
            /\ calls[k].value.error =
                   IF AuthenticationPattern(calls[k].service, calls[k].outcome.kind)
                   THEN AuthenticationError(calls[k].service)
                   ELSE ProviderError(calls[k].service, calls[k].outcome.kind)
            /\ k = Len(calls)
            /\ Done
            /\ result = calls[k].value

WitnessAuthenticationErrorAfterTimeout ==
    /\ Done /\ ~Chunked /\ Len(calls) = 2
    /\ calls[1].raised = "Timeout"
    /\ calls[2].service = "deepseek"
    /\ calls[2].outcome.kind = "401_Authentication_Fails"
    /\ result.error = "DeepSeek: API key invalid or expired"
    /\ result.translated_text = <<>>

\* C34: the deepseek and the openai adapter, given the same text, instruction,
\* credential and transport response, return results of the same kind
\* (success, AuthenticationError, ProviderError, or the same exception) with
\* the same translated_text: what one adapter made of a call, the other one
\* makes of it too.
ResultKind(service, r) ==
    IF r.raised # "" THEN r.raised
    ELSE IF r.value.error = None THEN "success"
    ELSE IF r.value.error = AuthenticationError(service) THEN "AuthenticationError"
    ELSE "ProviderError"
OtherChatProvider(service) == IF service = "deepseek" THEN "openai" ELSE "deepseek"
ChatAdaptersSameKind ==
    \A k \in DOMAIN calls :
        calls[k].service \in ChatProviders =>
            LET c     == calls[k]
                other == OtherChatProvider(c.service)
                r     == call_adapter([api_key |-> c.api_key, model |-> c.model],
                                      c.text, c.prompt, other, c.outcome)
            IN  /\ ResultKind(other, r) = ResultKind(c.service, c)
                /\ r.raised = "" => r.value.translated_text = c.value.translated_text

\* C35: the max_tokens of the request body a chat-completion adapter builds
\* is twice the length of the text, raised to 2000 when smaller and lowered to
\* 8000 when larger; so it lies between 2000 and 8000 and a longer text never
\* gets a smaller max_tokens than a shorter one.
PayloadBuilt == pc = "payload_built"
Clamped(n) == IF 2 * n < 2000 THEN 2000 ELSE IF 2 * n > 8000 THEN 8000 ELSE 2 * n
MaxTokensClamped ==
    PayloadBuilt =>
        /\ result.max_tokens = Clamped(Len(text))
        /\ 2000 <= result.max_tokens /\ result.max_tokens <= 8000
        /\ \A n \in {0, Len(text) \div 2, Len(text) - 1} :
               n >= 0 => max_tokens(SubSeq(text, 1, n)) <= result.max_tokens

WitnessMaxTokensBetweenLimits ==
    /\ PayloadBuilt
    /\ Len(text) = 1501
    /\ result.max_tokens = 3002

\* C36: for every provider of the listing get_all_services returns, the
\* enabled flag, the credential and the model listed are those of
\* get_service_config for that provider, so the listed enabled flag is
\* is_service_available(provider).
ListingAgreesWithResolver ==
    pc = "get_all_services" =>
        \A name \in DOMAIN result :
            LET config == get_service_config(AVAILABLE_SERVICES, session, name)
            IN  /\ result[name].enabled = config.enabled
                /\ result[name].api_key = config.api_key
                /\ result[name].model = config.model
                /\ result[name].enabled =
                       is_service_available(AVAILABLE_SERVICES, session, name)

\* C37: set_user_config(p, ...) and clear_user_config(p) leave every other
\* provider q as it was: its stored override record, what get_service_config
\* returns for it and whether it is available; the baseline is not touched.
\* clear_user_config(p) for a p without a stored record changes neither the
\* session nor the baseline.
SetOrClear(p) ==
    \/ ClearUserConfigCall(p)
    \/ \E api_key \in ConfigKeys, model \in ConfigModels : SetUserConfigCall(p, api_key, model)
OtherProvidersUntouched ==
    /\ [][\A p \in ConfigNames :
            SetOrClear(p) =>
                /\ AVAILABLE_SERVICES' = AVAILABLE_SERVICES
                /\ \A q \in ConfigNames \ {p} :
                       /\ get_user_config(session', q) = get_user_config(session, q)
                       /\ get_service_config(AVAILABLE_SERVICES', session', q)
                              = get_service_config(AVAILABLE_SERVICES, session, q)
                       /\ is_service_available(AVAILABLE_SERVICES', session', q)
                              = is_service_available(AVAILABLE_SERVICES, session, q)]_vars
    /\ [][\A p \in ConfigNames :
            (ClearUserConfigCall(p) /\ get_user_config(session, p) = EmptyDict) =>
                /\ get_user_config(session', p) = EmptyDict
                /\ Get(session', "user_translation_configs", EmptyDict)
                       = Get(session, "user_translation_configs", EmptyDict)]_vars

WitnessSecondOverrideKeepsFirst ==
    /\ pc = "set_user_config"
    /\ service_name = "openai"
    /\ config_ops = 2
    /\ get_user_config(session, "deepseek") = [api_key |-> UserKey, enabled |-> TRUE]
    /\ get_user_config(session, "openai") # EmptyDict

\* C38: the chunks _split_text returns are pieces of the text in their
\* original order, with nothing but whitespace before, between and after
\* them: concatenated they hold exactly the non-whitespace characters of the
\* text, in order; and no chunk is empty when the text is not blank.
NonWhitespace(s) == SelectSeq(s, LAMBDA c : c \notin Whitespace)
RECURSIVE Concatenated(_)
Concatenated(cs) == IF cs = <<>> THEN <<>> ELSE Head(cs) \o Concatenated(Tail(cs))
\* s is cs[1], cs[2], ... in this order with whitespace only around them
RECURSIVE PiecesInOrder(_, _)
PiecesInOrder(s, cs) ==
    IF cs = <<>> THEN \A i \in DOMAIN s : s[i] \in Whitespace
    ELSE \E j \in 0..(Len(s) - Len(Head(cs))) :
            /\ \A i \in 1..j : s[i] \in Whitespace
            /\ SubSeq(s, j + 1, j + Len(Head(cs))) = Head(cs)
            /\ PiecesInOrder(SubSeq(s, j + Len(Head(cs)) + 1, Len(s)), Tail(cs))
ChunksKeepNonWhitespace ==
    SplitDone =>
        /\ NonWhitespace(Concatenated(split_out)) = NonWhitespace(text)
        /\ PiecesInOrder(text, split_out)
        /\ ~Blank(text) => \A k \in DOMAIN split_out : split_out[k] # <<>>

WitnessWhitespaceTrimmedBetweenChunks ==
    /\ SplitDone
    /\ text = <<"a", ".", " ", "a", ".", " ">>
    /\ split_out = << <<"a", ".">>, <<"a", ".">> >>

\* C39: every adapter call of a request uses the credential and the model of
\* the configuration that passed the availability check of that request (so
\* all calls of the request use the same ones), also when set_user_config or
\* clear_user_config run on the session between the check and a call or
\* between two calls.
CallsUseCheckedConfig ==
    \A k \in DOMAIN calls :
        /\ calls[k].api_key = checked_config.api_key
        /\ calls[k].model = checked_config.model

\* what a set-override request carries
PostedKey(body) == Get(body.data, "api_key", <<>>)
PostedModel(body) == Get(body.data, "model", "")
Catalog == {"deepseek", "openai", "microsoft"}
TrimmedKey(body) ==
    LET k     == PostedKey(body)
        inner == {i \in DOMAIN k : k[i] \notin Whitespace}
    IN  IF inner = {} THEN <<>>
        ELSE SubSeq(k, CHOOSE i \in inner : \A j \in inner : i <= j,
                       CHOOSE i \in inner : \A j \in inner : j <= i)
KeyRejected(body) ==
    /\ PostedKey(body) # NoneStr
    /\ \/ TrimmedKey(body) = <<>>
       \/ Len(TrimmedKey(body)) < 10
       \/ TrimmedKey(body) = Placeholder
       \/ \E i \in DOMAIN TrimmedKey(body) : TrimmedKey(body)[i] \in Whitespace
ModelRejected(name, m) ==
    /\ m # None
    /\ strip_model(m) # ""
    /\ name \in Catalog
    /\ strip_model(m) \notin AVAILABLE_MODELS[name]
StoredRecords == Get(session, "user_translation_configs", EmptyDict)

\* C40: the set-override endpoint answers 400 and leaves the stored overrides
\* unchanged whenever the api_key, trimmed, is empty, shorter than 10
\* characters, the placeholder or contains whitespace, or the service name is
\* not in the catalog, or a model is given that the service does not list;
\* and every stored record is enabled and belongs to a catalog provider.
InvalidOverrideRejected ==
    /\ [][\A name \in ConfigNames, body \in RouteBodies :
            (/\ PostConfig(name, body)
             /\ \/ KeyRejected(body)
                \/ name \notin Catalog
                \/ ModelRejected(name, PostedModel(body))) =>
                result'.status = 400 /\ session' = session]_vars
    /\ [](\A name \in DOMAIN StoredRecords :
            name \in Catalog /\ StoredRecords[name].enabled = TRUE)
====
